---- MODULE Spec2Model ----
(***************************************************************************)
(* A model of the LLVMCompiler front end: the token stream and the         *)
(* recursive-descent parser of src/parser/parser.rs, and the IR builder    *)
(* state of src/irgen/instruction.rs (Function).                           *)
(*                                                                         *)
(* A token is modelled by its `data`, a sequence of characters (strings    *)
(* of length one).  A Stream is the pair (tokens, index); index is         *)
(* zero-based as in the source, so tokens[index] of the source is          *)
(* toks[index + 1] here.  Every parsing function returns a result record:  *)
(* kind "ok" carries the stream index and the parse tree node, kind "err"  *)
(* carries the diagnostic, kind "panic" is a Rust panic (unwrap of None,   *)
(* index out of bounds, usize underflow).                                  *)
(***************************************************************************)
EXTENDS Integers, Sequences, FiniteSets, TLC

VARIABLES
    tokens,          \* parser input: Vec<Token> handed to the parser
    result,          \* what the parsing function applied to `tokens` returned
    lexeme,          \* one token's data, built character by character
    identResult,     \* what parse_identifier returned on the stream [lexeme]
    instructions,    \* Function.instructions: index -> opcode
    labels,          \* Function.labels: index -> sequence of label names
    next_label,      \* Function.next_label
    next_register,   \* Function.next_register
    next_index,      \* Function.next_index
    continue_stack,  \* Function.continue_stack
    break_stack,     \* Function.break_stack
    ret,             \* the last Function method called and what it returned
    called,          \* the parsing function that produced `result`
    todo,            \* from_parse_tree_node: the steps the lowering has left
    built,           \* from_parse_tree_node: "building", "ok" or "err"
    lowered,         \* from_parse_tree_node: statements lowered so far
    func,            \* FunctionGenerationContext.func: the Function rendered
    ctx,             \* FunctionGenerationContext: values, next_temp, result,
                     \* current_arguments
    stage,           \* render_function: the loop it is in
    cursor,          \* render_function: the index of that loop
    env,             \* compile: the input file and options, and what the
                     \* stages outside this crate's compile.rs answer
    pc,              \* compile: the statement it is at
    child,           \* compile: the child of the Library the loop is at
    functions,       \* compile: the functions pushed so far
    events,          \* compile: the calls made so far, in order
    error,           \* compile: "" while running or Ok, else the Err returned
    created,         \* compile: File::create succeeded
    written,         \* compile: write! succeeded
    printed,         \* compile: what println! has printed
    subject,         \* type mutation: the Value handed to the function
    new_type,        \* type mutation: the DataType handed to the function
    original,        \* type mutation: the Value before any call
    applied          \* type mutation: the functions called so far

parserVars == <<tokens, result, called>>
identVars == <<lexeme, identResult>>
funcVars == <<instructions, labels, next_label, next_register, next_index,
              continue_stack, break_stack, ret>>
buildVars == <<todo, built, lowered>>
emitVars == <<func, ctx, stage, cursor>>
compileVars == <<env, pc, child, functions, events, error, created, written,
                 printed>>
mutateVars == <<subject, new_type, original, applied>>
vars == <<tokens, result, lexeme, identResult, instructions, labels,
          next_label, next_register, next_index, continue_stack,
          break_stack, ret, called, todo, built, lowered, func, ctx, stage,
          cursor, env, pc, child, functions, events, error, created, written,
          printed, subject, new_type, original, applied>>

(***************************************************************************)
(* Bounds of the model.                                                    *)
(***************************************************************************)
MaxTokens == 5
MaxLexeme == 3
MaxStars == 1
MaxLabels == 6
MaxInstructions == 3
MaxStatements == 2
MaxCallSequence == 4
MaxParameters == 2
MaxFunctions == 2
MaxMutations == 2

(***************************************************************************)
(* Program constants.                                                      *)
(***************************************************************************)
TYPES == { <<"i","8">>, <<"u","8">>, <<"i","1","6">>, <<"u","1","6">>,
           <<"i","3","2">>, <<"u","3","2">>, <<"i","6","4">>, <<"u","6","4">>,
           <<"v","o","i","d">> }

KEYWORDS == { <<"l","o","o","p">>, <<"w","h","i","l","e">>, <<"i","f">>,
              <<"b","r","e","a","k">>, <<"c","o","n","t","i","n","u","e">>,
              <<"e","l","s","e">>, <<"d","o">>, <<"a","s">> }

MAX_EXPRESSION == 17

LowerCase == { "a","b","c","d","e","f","g","h","i","j","k","l","m",
               "n","o","p","q","r","s","t","u","v","w","x","y","z" }
UpperCase == { "A","B","C","D","E","F","G","H","I","J","K","L","M",
               "N","O","P","Q","R","S","T","U","V","W","X","Y","Z" }
Digits == { "0","1","2","3","4","5","6","7","8","9" }

\* Regex::new(r"\A[a-zA-Z|_][a-zA-Z0-9|_]*").is_match(data): the pattern is
\* anchored at the start only, the star matches zero or more characters, and
\* inside a character class `|` is a literal character.
IDENTIFIER_REGEX(data) ==
    /\ Len(data) >= 1
    /\ data[1] \in LowerCase \cup UpperCase \cup {"|", "_"}

\* Regex::new(r"\A[0-9]+").is_match(data): anchored at the start only.
INTEGER_REGEX(data) ==
    /\ Len(data) >= 1
    /\ data[1] \in Digits

(***************************************************************************)
(* Parse tree nodes (ParseTreeNode) and parser results.                    *)
(***************************************************************************)
Leaf(kind, tok) ==
    [kind |-> kind, type |-> "", token |-> tok, children |-> <<>>]

Branch(kind, children) ==
    [kind |-> kind, type |-> "", token |-> <<>>, children |-> children]

Expression(type, children) ==
    [kind |-> "Expression", type |-> type, token |-> <<>>,
     children |-> children]

Empty == Branch("Empty", <<>>)

NoExpect == [what |-> "", data |-> <<>>]
What(s) == [what |-> s, data |-> <<>>]
Quoted(data) == [what |-> "token", data |-> data]

Ok(index, node) ==
    [kind |-> "ok", index |-> index, node |-> node, diag |-> "",
     expected |-> NoExpect, got |-> <<>>]

expected_got_error(expected, tok) ==
    [kind |-> "err", index |-> 0, node |-> Empty, diag |-> "expected_got",
     expected |-> expected, got |-> tok]

unexpected_eof_error(expected, tok) ==
    [kind |-> "err", index |-> 0, node |-> Empty, diag |-> "unexpected_eof",
     expected |-> expected, got |-> tok]

Panic ==
    [kind |-> "panic", index |-> 0, node |-> Empty, diag |-> "",
     expected |-> NoExpect, got |-> <<>>]

NoResult ==
    [kind |-> "none", index |-> 0, node |-> Empty, diag |-> "",
     expected |-> NoExpect, got |-> <<>>]

(***************************************************************************)
(* Stream.                                                                 *)
(***************************************************************************)
peek_is_some(toks, index) == index + 1 < Len(toks)

current_is_some(toks, index) == index < Len(toks)

check_current(toks, index, data) ==
    (index < Len(toks)) /\ (toks[index + 1] = data)

\* unexpected_eof_error(.., &self.tokens[index - 1]): the subtraction
\* underflows when index is 0 and the indexing is out of bounds when
\* index - 1 is not a position of the list; both panic.
eof_at(toks, expected, index) ==
    IF index >= 1 /\ index - 1 < Len(toks)
    THEN unexpected_eof_error(expected, toks[index])
    ELSE Panic

expect_at(toks, data, index) ==
    IF index < Len(toks)
    THEN IF data = toks[index + 1]
         THEN Ok(index, Empty)
         ELSE expected_got_error(Quoted(data), toks[index + 1])
    ELSE eof_at(toks, Quoted(data), index)

expect(toks, index, data) == expect_at(toks, data, index)

expect_and_consume(toks, index, data) ==
    LET r == expect_at(toks, data, index)
    IN  IF r.kind = "ok" THEN Ok(index + 1, Empty) ELSE r

expect_current_exists(toks, index, s) ==
    IF ~current_is_some(toks, index)
    THEN eof_at(toks, What(s), index)
    ELSE Ok(index, Empty)

(***************************************************************************)
(* convert_to_left.                                                        *)
(***************************************************************************)
RECURSIVE convert_to_left(_)

RecursedKinds ==
    { "Library", "Function", "Arguments", "Argument", "Type", "Statement",
      "Statements", "Assignments", "Assignment", "Expression",
      "AssignmentStatement", "IfStatement", "ReturnStatement", "WhileLoop",
      "DoWhileLoop", "Loop" }

convert_to_left(node) ==
    LET tree == IF node.kind = "Expression" /\ node.type = "Dereference"
                THEN Expression("DereferenceLeft", node.children)
                ELSE node
    IN  IF tree.kind \in RecursedKinds
        THEN [tree EXCEPT !.children =
                 [i \in 1..Len(tree.children) |->
                     convert_to_left(tree.children[i])]]
        ELSE tree

(***************************************************************************)
(* Stream::accept_stream (parser.rs 140-148), `accept_stream(result)?` and *)
(* `result?`: an error (or a panic) of the step ends the function with it, *)
(* a success is handed on.                                                 *)
(***************************************************************************)
Try(r, Then(_)) == IF r.kind # "ok" THEN r ELSE Then(r)

(***************************************************************************)
(* Leaf parsers.                                                           *)
(***************************************************************************)
parse_raw_type(toks, index) ==
    Try(expect_current_exists(toks, index, "raw type"), LAMBDA e :
        IF toks[index + 1] \in TYPES
        THEN Ok(index + 1, Leaf("RawType", toks[index + 1]))
        ELSE expected_got_error(What("raw type"), toks[index + 1]))

parse_identifier(toks, index) ==
    Try(expect_current_exists(toks, index, "identifier"), LAMBDA e :
        IF \/ toks[index + 1] \in TYPES
           \/ toks[index + 1] \in KEYWORDS
           \/ ~IDENTIFIER_REGEX(toks[index + 1])
        THEN expected_got_error(What("identifier"), toks[index + 1])
        ELSE Ok(index + 1, Leaf("Identifier", toks[index + 1])))

parse_integer(toks, index) ==
    Try(expect_current_exists(toks, index, "integer"), LAMBDA e :
        IF ~INTEGER_REGEX(toks[index + 1])
        THEN expected_got_error(What("integer"), toks[index + 1])
        ELSE Ok(index + 1, Leaf("IntegerLiteral", toks[index + 1])))

parse_token(toks, index, what) ==
    Try(expect_current_exists(toks, index, what), LAMBDA e :
        Ok(index + 1, Leaf("RawToken", toks[index + 1])))

RECURSIVE parse_type_stars(_, _, _)
\* while stream.check_current("*") { items.push(RawToken); consume }
parse_type_stars(toks, index, items) ==
    IF check_current(toks, index, <<"*">>)
    THEN parse_type_stars(toks, index + 1,
                          Append(items, Leaf("RawToken", toks[index + 1])))
    ELSE Ok(index, Branch("Type", items))

parse_type(toks, index) ==
    Try(expect_current_exists(toks, index, "type"), LAMBDA e :
    Try(parse_raw_type(toks, index), LAMBDA raw :
        parse_type_stars(toks, raw.index, <<raw.node>>)))

(***************************************************************************)
(* Expressions: recursive_expression, one case per precedence level.       *)
(***************************************************************************)
\* depth 3: the prefix operator named by the current token, or None
prefix_operator(data) ==
    CASE data = <<"+","+">> -> "PreIncrement"
      [] data = <<"-","-">> -> "PreDecrement"
      [] data = <<"+">> -> "UnaryPlus"
      [] data = <<"-">> -> "UnaryMinus"
      [] data = <<"!">> -> "LogicalNot"
      [] data = <<"~">> -> "BitwiseNot"
      [] data = <<"*">> -> "Dereference"
      [] data = <<"&">> -> "Reference"
      [] OTHER -> "None"

\* depths 4..13, 15, 17: `match depth { .. match current.data .. }`, the
\* binary operator of this depth named by the token, or None
match_operator(depth, data) ==
    CASE depth = 4 ->
           (CASE data = <<"*">> -> "Multiply"
              [] data = <<"/">> -> "Divide"
              [] data = <<"%">> -> "Modulus"
              [] OTHER -> "None")
      [] depth = 5 ->
           (CASE data = <<"+">> -> "Add"
              [] data = <<"-">> -> "Subtract"
              [] OTHER -> "None")
      [] depth = 6 ->
           (CASE data = <<"<","<">> -> "ShiftLeft"
              [] data = <<">",">">> -> "ShiftRight"
              [] OTHER -> "None")
      [] depth = 7 ->
           (CASE data = <<"<">> -> "LessThan"
              [] data = <<"<","=">> -> "LessThanOrEqual"
              [] data = <<">">> -> "GreaterThan"
              [] data = <<">","=">> -> "GreaterThanOrEqual"
              [] OTHER -> "None")
      [] depth = 8 ->
           (CASE data = <<"=","=">> -> "Equal"
              [] data = <<"!","=">> -> "NotEqual"
              [] OTHER -> "None")
      [] depth = 9 ->
           (CASE data = <<"&">> -> "BitwiseAnd"
              [] OTHER -> "None")
      [] depth = 10 ->
           (CASE data = <<"^">> -> "BitwiseXor"
              [] OTHER -> "None")
      [] depth = 11 ->
           (CASE data = <<"|">> -> "BitwiseOr"
              [] OTHER -> "None")
      [] depth = 12 ->
           (CASE data = <<"&","&">> -> "LogicalAnd"
              [] OTHER -> "None")
      [] depth = 13 ->
           (CASE data = <<"|","|">> -> "LogicalOr"
              [] OTHER -> "None")
      [] depth = 15 ->
           (CASE data = <<"=">> -> "Assignment"
              [] data = <<"+","=">> -> "AddAssign"
              [] data = <<"-","=">> -> "SubtractAssign"
              [] data = <<"*","=">> -> "MultiplyAssign"
              [] data = <<"/","=">> -> "DivideAssign"
              [] data = <<"%","=">> -> "ModulusAssign"
              [] data = <<"<","<","=">> -> "ShiftLeftAssign"
              [] data = <<">",">","=">> -> "ShiftRightAssign"
              [] data = <<"&","=">> -> "BitwiseAnd"
              [] data = <<"^","=">> -> "BitwiseXor"
              [] data = <<"|","=">> -> "BitwiseOr"
              [] OTHER -> "None")
      [] depth = 17 ->
           (CASE data = <<",">> -> "Comma"
              [] OTHER -> "None")
      [] OTHER -> "None"

\* a slip in the depth dispatch: the tables of depths 4 and 5 exchanged
binary_operator_swapped(toks, index, depth) ==
    IF current_is_some(toks, index)
    THEN match_operator(IF depth = 4 THEN 5 ELSE IF depth = 5 THEN 4
                        ELSE depth, toks[index + 1])
    ELSE "None"

\* `let op = if let Some(current) = stream.current() { .. } else { None }`:
\* at the end of the tokens there cannot be an operator
binary_operator(toks, index, depth) ==
    IF current_is_some(toks, index)
    THEN match_operator(depth, toks[index + 1])
    ELSE "None"

\* a conversion that rewrites only the root of the operand
left_operand_root_only(depth, prev) ==
    IF depth = 15 /\ prev.kind = "Expression" /\ prev.type = "Dereference"
    THEN Expression("DereferenceLeft", prev.children)
    ELSE prev

\* the operand of the operator that has just been consumed: depth 15
\* rewrites it with convert_to_left, the other depths keep it
left_operand(depth, prev) ==
    IF depth = 15 THEN convert_to_left(prev) ELSE prev

RECURSIVE recursive_expression(_, _, _)
RECURSIVE parse_expression(_, _)
RECURSIVE postfix_loop(_, _, _)
RECURSIVE call_arguments(_, _, _)
RECURSIVE post_increment_loop(_, _, _)

\* depth 1, function call: while !check_current(")") { items.push(expr);
\* if check_current(",") consume else break }
call_arguments(toks, index, items) ==
    IF ~check_current(toks, index, <<")">>)
    THEN Try(recursive_expression(toks, index, MAX_EXPRESSION - 1),
             LAMBDA a :
                IF check_current(toks, a.index, <<",">>)
                THEN call_arguments(toks, a.index + 1, Append(items, a.node))
                ELSE Ok(a.index, Branch("Items", Append(items, a.node))))
    ELSE Ok(index, Branch("Items", items))

\* depth 1: while check_current("[") || check_current("(")
postfix_loop(toks, index, current) ==
    IF check_current(toks, index, <<"[">>)
    THEN Try(parse_expression(toks, index + 1), LAMBDA expr :
         Try(expect_and_consume(toks, expr.index, <<"]">>), LAMBDA close :
             postfix_loop(toks, close.index,
                 Expression("ArrayAccess", <<current, expr.node>>))))
    ELSE IF check_current(toks, index, <<"(">>)
    THEN Try(call_arguments(toks, index + 1, <<current>>), LAMBDA args :
         Try(expect_and_consume(toks, args.index, <<")">>), LAMBDA close :
             postfix_loop(toks, close.index,
                 Expression("FunctionCall", args.node.children))))
    ELSE Ok(index, current)

\* depth 2: while check_current("++") || check_current("--")
post_increment_loop(toks, index, current) ==
    IF check_current(toks, index, <<"+","+">>)
    THEN post_increment_loop(toks, index + 1,
                             Expression("PostIncrement", <<current>>))
    ELSE IF check_current(toks, index, <<"-","-">>)
    THEN post_increment_loop(toks, index + 1,
                             Expression("PostDecrement", <<current>>))
    ELSE Ok(index, current)

recursive_expression(toks, index, depth) ==
    CASE depth = 0 ->
        IF check_current(toks, index, <<"(">>)
        THEN Try(recursive_expression(toks, index + 1, MAX_EXPRESSION),
                 LAMBDA val :
             Try(expect_and_consume(toks, val.index, <<")">>), LAMBDA close :
                 Ok(close.index, val.node)))
        ELSE IF parse_integer(toks, index).kind = "ok"
        THEN parse_integer(toks, index)
        ELSE IF parse_identifier(toks, index).kind = "ok"
        THEN parse_identifier(toks, index)
        ELSE IF current_is_some(toks, index)
        THEN expected_got_error(What("expression"), toks[index + 1])
        ELSE Panic
      [] depth = 1 ->
        Try(recursive_expression(toks, index, depth - 1), LAMBDA first :
            postfix_loop(toks, first.index, first.node))
      [] depth = 2 ->
        Try(recursive_expression(toks, index, depth - 1), LAMBDA first :
            post_increment_loop(toks, first.index, first.node))
      [] depth = 3 ->
        IF ~current_is_some(toks, index) THEN Panic
        ELSE IF prefix_operator(toks[index + 1]) = "None"
        THEN recursive_expression(toks, index, depth - 1)
        ELSE Try(recursive_expression(toks, index + 1, depth), LAMBDA post :
                 Ok(post.index,
                    Expression(prefix_operator(toks[index + 1]),
                               <<post.node>>)))
      [] depth \in (4..13) \cup {15, 17} ->
        Try(recursive_expression(toks, index, depth - 1), LAMBDA prev :
            IF binary_operator(toks, prev.index, depth) = "None"
            THEN Ok(prev.index, prev.node)
            ELSE Try(recursive_expression(toks, prev.index + 1, depth),
                     LAMBDA post :
                        Ok(post.index,
                           Expression(binary_operator(toks, prev.index, depth),
                                      <<left_operand(depth, prev.node),
                                        post.node>>))))
      [] depth = 14 ->
        Try(recursive_expression(toks, index, depth - 1), LAMBDA prev :
            IF check_current(toks, prev.index, <<"?">>)
            THEN Try(parse_expression(toks, prev.index + 1), LAMBDA inner :
                 Try(expect_and_consume(toks, inner.index, <<":">>),
                     LAMBDA colon :
                 Try(recursive_expression(toks, colon.index, depth),
                     LAMBDA last :
                     Ok(last.index,
                        Expression("Ternary",
                                   <<prev.node, inner.node, last.node>>)))))
            ELSE Ok(prev.index, prev.node))
      [] depth = 16 ->
        Try(recursive_expression(toks, index, depth - 1), LAMBDA prev :
            IF check_current(toks, prev.index, <<"a","s">>)
            THEN Try(parse_type(toks, prev.index + 1), LAMBDA datatype :
                     Ok(datatype.index,
                        Expression("Cast", <<prev.node, datatype.node>>)))
            ELSE Ok(prev.index, prev.node))
      [] OTHER -> Panic

parse_expression(toks, index) ==
    Try(expect_current_exists(toks, index, "expression"), LAMBDA e :
        recursive_expression(toks, index, MAX_EXPRESSION))

parse_expression_no_comma(toks, index) ==
    Try(expect_current_exists(toks, index, "expression"), LAMBDA e :
        recursive_expression(toks, index, MAX_EXPRESSION - 1))

(***************************************************************************)
(* Declarations, statements, functions, library.                           *)
(***************************************************************************)
parse_assignment(toks, index) ==
    Try(expect_current_exists(toks, index, "assignment"), LAMBDA e :
    Try(parse_identifier(toks, index), LAMBDA identifier :
    Try(expect_and_consume(toks, identifier.index, <<"=">>), LAMBDA eq :
    Try(parse_expression_no_comma(toks, eq.index), LAMBDA expr :
        Ok(expr.index,
           Branch("Assignment", <<identifier.node, expr.node>>))))))

RECURSIVE parse_assignments_loop(_, _, _)
\* while check_current(",") { consume; items.push(parse_assignment) }
parse_assignments_loop(toks, index, items) ==
    IF check_current(toks, index, <<",">>)
    THEN Try(parse_assignment(toks, index + 1), LAMBDA a :
             parse_assignments_loop(toks, a.index, Append(items, a.node)))
    ELSE Ok(index, Branch("Assignments", items))

parse_assignments(toks, index) ==
    Try(parse_assignment(toks, index), LAMBDA arg :
        parse_assignments_loop(toks, arg.index, <<arg.node>>))

RECURSIVE parse_statement(_, _)
RECURSIVE parse_statements_loop(_, _, _)

\* compound statement: while !check_current("}") { push(parse_statement) }
\* and then expect_and_consume("}")
parse_statements_loop(toks, index, statements) ==
    IF ~check_current(toks, index, <<"}">>)
    THEN Try(parse_statement(toks, index), LAMBDA st :
             parse_statements_loop(toks, st.index,
                                   Append(statements, st.node)))
    ELSE Try(expect_and_consume(toks, index, <<"}">>), LAMBDA close :
             Ok(close.index, Branch("Statements", statements)))

parse_if_statement(toks, index) ==
    Try(expect_current_exists(toks, index, "if statement"), LAMBDA e :
    Try(expect_and_consume(toks, index, <<"i","f">>), LAMBDA kw :
    Try(parse_expression(toks, kw.index), LAMBDA cond :
    Try(parse_statement(toks, cond.index), LAMBDA body :
        IF check_current(toks, body.index, <<"e","l","s","e">>)
        THEN Try(parse_statement(toks, body.index + 1), LAMBDA clause :
                 Ok(clause.index,
                    Branch("IfStatement",
                           <<cond.node, body.node, clause.node>>)))
        ELSE Ok(body.index,
                Branch("IfStatement", <<cond.node, body.node, Empty>>))))))

parse_while_loop(toks, index) ==
    Try(expect_current_exists(toks, index, "while loop"), LAMBDA e :
    Try(expect_and_consume(toks, index, <<"w","h","i","l","e">>), LAMBDA kw :
    Try(parse_expression(toks, kw.index), LAMBDA cond :
    Try(parse_statement(toks, cond.index), LAMBDA statement :
        Ok(statement.index,
           Branch("WhileLoop", <<cond.node, statement.node>>))))))

parse_do_while_loop(toks, index) ==
    Try(expect_current_exists(toks, index, "do while loop"), LAMBDA e :
    Try(expect_and_consume(toks, index, <<"d","o">>), LAMBDA kw :
    Try(parse_statement(toks, kw.index), LAMBDA statement :
    Try(expect_and_consume(toks, statement.index, <<"w","h","i","l","e">>),
        LAMBDA kw2 :
    Try(parse_expression(toks, kw2.index), LAMBDA cond :
        Ok(cond.index,
           Branch("DoWhileLoop", <<cond.node, statement.node>>)))))))

parse_loop(toks, index) ==
    Try(expect_current_exists(toks, index, "loop"), LAMBDA e :
    Try(expect_and_consume(toks, index, <<"l","o","o","p">>), LAMBDA kw :
    Try(parse_statement(toks, kw.index), LAMBDA statement :
        Ok(statement.index, Branch("Loop", <<statement.node>>)))))

parse_statement(toks, index) ==
    Try(expect_current_exists(toks, index, "statement"), LAMBDA e :
        IF check_current(toks, index, <<";">>)
        THEN Ok(index + 1, Branch("Statement", <<>>))
        ELSE IF check_current(toks, index, <<"{">>)
        THEN parse_statements_loop(toks, index + 1, <<>>)
        ELSE IF \/ check_current(toks, index,
                                 <<"c","o","n","t","i","n","u","e">>)
                \/ check_current(toks, index, <<"b","r","e","a","k">>)
        THEN Try(parse_token(toks, index, "command"), LAMBDA item :
             Try(expect_and_consume(toks, item.index, <<";">>), LAMBDA semi :
                 Ok(semi.index, Branch("Statement", <<item.node>>))))
        ELSE IF parse_type(toks, index).kind = "ok"
        THEN Try(parse_type(toks, index), LAMBDA datatype :
             Try(parse_assignments(toks, datatype.index),
                 LAMBDA assignments :
             Try(expect_and_consume(toks, assignments.index, <<";">>),
                 LAMBDA semi :
                 Ok(semi.index,
                    Branch("AssignmentStatement",
                           <<datatype.node, assignments.node>>)))))
        ELSE IF check_current(toks, index, <<"i","f">>)
        THEN parse_if_statement(toks, index)
        ELSE IF check_current(toks, index, <<"w","h","i","l","e">>)
        THEN parse_while_loop(toks, index)
        ELSE IF check_current(toks, index, <<"d","o">>)
        THEN parse_do_while_loop(toks, index)
        ELSE IF check_current(toks, index, <<"l","o","o","p">>)
        THEN parse_loop(toks, index)
        ELSE IF check_current(toks, index, <<"r","e","t","u","r","n">>)
        THEN Try(expect_and_consume(toks, index,
                                    <<"r","e","t","u","r","n">>), LAMBDA kw :
             Try(parse_expression(toks, kw.index), LAMBDA expr :
             Try(expect_and_consume(toks, expr.index, <<";">>), LAMBDA semi :
                 Ok(semi.index, Branch("ReturnStatement", <<expr.node>>)))))
        ELSE Try(parse_expression(toks, index), LAMBDA expr :
             Try(expect_and_consume(toks, expr.index, <<";">>), LAMBDA semi :
                 Ok(semi.index, Branch("Statement", <<expr.node>>)))))

parse_argument(toks, index) ==
    Try(expect_current_exists(toks, index, "argument"), LAMBDA e :
    Try(parse_type(toks, index), LAMBDA datatype :
    Try(parse_identifier(toks, datatype.index), LAMBDA name :
        Ok(name.index, Branch("Argument", <<datatype.node, name.node>>)))))

RECURSIVE parse_arguments_loop(_, _, _)
\* while check_current(",") { consume; items.push(parse_argument) }
parse_arguments_loop(toks, index, items) ==
    IF check_current(toks, index, <<",">>)
    THEN Try(parse_argument(toks, index + 1), LAMBDA a :
             parse_arguments_loop(toks, a.index, Append(items, a.node)))
    ELSE Ok(index, Branch("Arguments", items))

parse_arguments(toks, index) ==
    Try(parse_argument(toks, index), LAMBDA arg :
        parse_arguments_loop(toks, arg.index, <<arg.node>>))

\* if check_current(")") { items.push(Empty) } else { parse_arguments }
parse_argument_list(toks, index) ==
    IF check_current(toks, index, <<")">>)
    THEN Ok(index, Empty)
    ELSE parse_arguments(toks, index)

\* `stream.expect(..)?; stream.consume();` is expect_and_consume
parse_function(toks, index) ==
    Try(expect_current_exists(toks, index, "function"), LAMBDA e :
    Try(parse_type(toks, index), LAMBDA return_type :
    Try(parse_identifier(toks, return_type.index), LAMBDA func_name :
    Try(expect_and_consume(toks, func_name.index, <<"(">>), LAMBDA open :
    Try(parse_argument_list(toks, open.index), LAMBDA arg_list :
    Try(expect_and_consume(toks, arg_list.index, <<")">>), LAMBDA close :
    Try(parse_statement(toks, close.index), LAMBDA statement :
        Ok(statement.index,
           Branch("Function",
                  <<return_type.node, func_name.node, arg_list.node,
                    statement.node>>)))))))))

RECURSIVE parse_library_loop(_, _, _)
\* while stream.peek().is_some() { items.push(parse_function) }
parse_library_loop(toks, index, items) ==
    IF peek_is_some(toks, index)
    THEN Try(parse_function(toks, index), LAMBDA f :
             parse_library_loop(toks, f.index, Append(items, f.node)))
    ELSE Ok(index, Branch("Library", items))

parse_library(toks, index) == parse_library_loop(toks, index, <<>>)

\* parse(tokens) = parse_library(&Stream::new(tokens))?.1; the stream that
\* parse drops is kept in the result so that the cursor can be observed
parse(toks) == parse_library(toks, 0)

(***************************************************************************)
(* The parser driven over token sequences.                                 *)
(***************************************************************************)
\* the lexemes the token sequences of SpecParser are made of
Vocabulary ==
    { <<"i","3","2">>, <<"f">>, <<"(">>, <<")">>, <<";">>, <<"+">> }

ParserIdle ==
    /\ tokens = <<>>
    /\ result = NoResult
    /\ called = ""

\* the tokenizer hands over one more token
Tokenize(t) ==
    /\ called = ""
    /\ Len(tokens) < MaxTokens
    /\ tokens' = Append(tokens, t)
    /\ UNCHANGED <<result, called>>

Parse ==
    /\ called = ""
    /\ result' = parse(tokens)
    /\ called' = "parse"
    /\ UNCHANGED tokens

\* the expression-level functions applied to a token sequence
ParseExpression ==
    /\ called = ""
    /\ result' = parse_expression(tokens, 0)
    /\ called' = "parse_expression"
    /\ UNCHANGED tokens

ParseStatement ==
    /\ called = ""
    /\ result' = parse_statement(tokens, 0)
    /\ called' = "parse_statement"
    /\ UNCHANGED tokens

\* the token sequences of SpecExpr: operands joined by binary operators,
\* with or without the `;` that ends an expression statement
RECURSIVE Stars(_)
Stars(k) == IF k = 0 THEN <<>> ELSE <<<<"*">>>> \o Stars(k - 1)

ValueNames == << <<"a">>, <<"b">>, <<"c">> >>
PointerNames == << <<"p">>, <<"q">>, <<"r">> >>

OperandsAt(n) ==
    { <<ValueNames[n]>> } \cup
    { Stars(k) \o <<PointerNames[n]>> : k \in 1..MaxStars }

BinaryTokens ==
    { <<"*">>, <<"/">>, <<"%">>, <<"+">>, <<"-">>, <<"<","<">>, <<">",">">>,
      <<"<">>, <<"<","=">>, <<">">>, <<">","=">>, <<"=","=">>, <<"!","=">>,
      <<"&">>, <<"^">>, <<"|">>, <<"&","&">>, <<"|","|">>,
      <<"=">>, <<"+","=">>, <<"-","=">>, <<"*","=">>, <<"/","=">>,
      <<"%","=">>, <<"<","<","=">>, <<">",">","=">>, <<"&","=">>,
      <<"^","=">>, <<"|","=">>, <<",">> }

CastTypes == { <<"i","3","2">>, <<"i","6","4">> }

\* one operator and its right operand: a binary operator and an operand,
\* or `as` and a type
Tails(n) ==
    { <<op>> \o x : op \in BinaryTokens, x \in OperandsAt(n) } \cup
    { << <<"a","s">>, t >> : t \in CastTypes }

Expressions1 == OperandsAt(1)
Expressions2 == { e \o t : e \in Expressions1, t \in Tails(2) }
Expressions3 == { e \o t : e \in Expressions2, t \in Tails(3) }

ExprInputs ==
    LET E == Expressions1 \cup Expressions2 \cup Expressions3
    IN  E \cup { Append(e, <<";">>) : e \in E }

\* parse_identifier applied to a stream of one token
LexAlphabet == { "a", "s", "i", "8", "|", "_", "+", "Z" }

AppendChar(c) ==
    /\ identResult.kind = "none"
    /\ Len(lexeme) < MaxLexeme
    /\ lexeme' = Append(lexeme, c)
    /\ UNCHANGED identResult

ParseIdentifier ==
    /\ identResult.kind = "none"
    /\ identResult' = parse_identifier(<<lexeme>>, 0)
    /\ UNCHANGED lexeme

(***************************************************************************)
(* The IR builder: Function of src/irgen/instruction.rs.                   *)
(***************************************************************************)
DigitChar == <<"0","1","2","3","4","5","6","7","8","9">>

RECURSIVE to_string(_)
\* the decimal digits of a usize, as format!("{}", n) prints them
to_string(n) ==
    IF n < 10 THEN DigitChar[n + 1]
    ELSE to_string(n \div 10) \o DigitChar[(n % 10) + 1]

\* format!("L{}", n)
label_name(n) == "L" \o to_string(n)

\* HashMap::new() and HashMap::insert
EmptyMap == [k \in {} |-> 0]

Insert(map, key, value) ==
    [k \in (DOMAIN map) \cup {key} |-> IF k = key THEN value ELSE map[k]]

\* Vec::pop: removes the last element, does nothing on an empty vector
Pop(stack) ==
    IF Len(stack) = 0 THEN stack ELSE SubSeq(stack, 1, Len(stack) - 1)

Instruction(opcode, arguments) ==
    [opcode |-> opcode, arguments |-> arguments]

\* DataType: the base type, the number of `*`, the lvalue bit
DataType(raw_type, num_ptr, is_ref) ==
    [raw_type |-> raw_type, num_ptr |-> num_ptr, is_ref |-> is_ref]

UnknownType == DataType("Unknown", 0, FALSE)

\* Value::Symbol(Symbol), Value::Literal(Literal), Value::Label(String)
Symbol(title, datatype) ==
    [value |-> "Symbol", title |-> title, datatype |-> datatype]

Literal(literal, datatype) ==
    [value |-> "Literal", literal |-> literal, datatype |-> datatype]

Label(name) == [value |-> "Label", name |-> name]

\* the instructions handed to add_instruction
SomeInstructions ==
    { Instruction("Nop", <<>>),
      Instruction("Jmp", <<Label("exit")>>),
      Instruction("Ret", <<>>) }

Returned(op, val) == [op |-> op, val |-> val, panic |-> FALSE]
Panicked(op) == [op |-> op, val |-> <<>>, panic |-> TRUE]

\* Function::new()
FunctionNew ==
    /\ instructions = EmptyMap
    /\ labels = EmptyMap
    /\ next_label = 0
    /\ next_register = 0
    /\ next_index = 0
    /\ continue_stack = <<>>
    /\ break_stack = <<>>
    /\ ret = Returned("new", <<>>)

\* an insertion that forgets to advance the cursor
add_instruction_no_advance(inst) ==
    /\ instructions' = Insert(instructions, next_index, inst)
    /\ ret' = Returned("add_instruction", <<>>)
    /\ UNCHANGED <<labels, next_label, next_register, next_index,
                   continue_stack, break_stack>>

add_instruction(inst) ==
    /\ instructions' = Insert(instructions, next_index, inst)
    /\ next_index' = next_index + 1
    /\ ret' = Returned("add_instruction", <<>>)
    /\ UNCHANGED <<labels, next_label, next_register, continue_stack,
                   break_stack>>

\* entry = get_label(); exit = get_label(); push both; return (entry, exit)
enter_loop ==
    /\ LET entry == label_name(next_label)
           exit == label_name(next_label + 1)
       IN  /\ next_label' = next_label + 2
           /\ continue_stack' = Append(continue_stack, entry)
           /\ break_stack' = Append(break_stack, exit)
           /\ ret' = Returned("enter_loop", <<entry, exit>>)
    /\ UNCHANGED <<instructions, labels, next_register, next_index>>

\* an exit that pops one stack only
exit_loop_one_stack ==
    /\ continue_stack' = Pop(continue_stack)
    /\ ret' = Returned("exit_loop", <<>>)
    /\ UNCHANGED <<instructions, labels, next_label, next_register,
                   next_index, break_stack>>

exit_loop ==
    /\ continue_stack' = Pop(continue_stack)
    /\ break_stack' = Pop(break_stack)
    /\ ret' = Returned("exit_loop", <<>>)
    /\ UNCHANGED <<instructions, labels, next_label, next_register,
                   next_index>>

\* Some(continue_stack[continue_stack.len() - 1]) or None
get_continue ==
    /\ ret' = IF Len(continue_stack) > 0
              THEN Returned("get_continue",
                            <<continue_stack[Len(continue_stack)]>>)
              ELSE Returned("get_continue", <<>>)
    /\ UNCHANGED <<instructions, labels, next_label, next_register,
                   next_index, continue_stack, break_stack>>

\* a read of the outermost loop's label instead of the innermost one's
get_break_outermost ==
    /\ ret' = IF Len(break_stack) > 0
              THEN Returned("get_break", <<break_stack[1]>>)
              ELSE Returned("get_break", <<>>)
    /\ UNCHANGED <<instructions, labels, next_label, next_register,
                   next_index, continue_stack, break_stack>>

\* Some(break_stack[continue_stack.len() - 1]) or None; the index is taken
\* from continue_stack, and indexing break_stack outside its bounds panics
get_break ==
    /\ ret' = IF Len(break_stack) > 0
              THEN IF /\ Len(continue_stack) >= 1
                      /\ Len(continue_stack) <= Len(break_stack)
                   THEN Returned("get_break",
                                 <<break_stack[Len(continue_stack)]>>)
                   ELSE Panicked("get_break")
              ELSE Returned("get_break", <<>>)
    /\ UNCHANGED <<instructions, labels, next_label, next_register,
                   next_index, continue_stack, break_stack>>

\* a binding that replaces the labels already bound at the index
place_label_overwrite(label, index) ==
    /\ labels' = Insert(labels, index, <<label>>)
    /\ ret' = Returned("place_label", <<>>)
    /\ UNCHANGED <<instructions, next_label, next_register, next_index,
                   continue_stack, break_stack>>

\* labels[index].push(label), or labels.insert(index, vec![label])
place_label(label, index) ==
    /\ labels' = IF index \in DOMAIN labels
                 THEN [labels EXCEPT ![index] = Append(@, label)]
                 ELSE Insert(labels, index, <<label>>)
    /\ ret' = Returned("place_label", <<>>)
    /\ UNCHANGED <<instructions, next_label, next_register, next_index,
                   continue_stack, break_stack>>

\* the same binding at self.next_index
place_label_here(label) == place_label(label, next_index)

\* a label taken without advancing the counter
get_label_reused ==
    /\ next_label' = next_label
    /\ ret' = Returned("get_label", <<label_name(next_label)>>)
    /\ UNCHANGED <<instructions, labels, next_register, next_index,
                   continue_stack, break_stack>>

\* self.next_label += 1; format!("L{}", self.next_label - 1)
get_label ==
    /\ next_label' = next_label + 1
    /\ ret' = Returned("get_label", <<label_name(next_label' - 1)>>)
    /\ UNCHANGED <<instructions, labels, next_register, next_index,
                   continue_stack, break_stack>>

\* format!("R{}", n)
register_name(n) == "R" \o to_string(n)

\* self.next_register += 1; format!("R{}", self.next_register - 1)
get_register ==
    /\ next_register' = next_register + 1
    /\ ret' = Returned("get_register", <<register_name(next_register' - 1)>>)
    /\ UNCHANGED <<instructions, labels, next_label, next_index,
                   continue_stack, break_stack>>

(***************************************************************************)
(* from_parse_tree_node: the lowering of one function body.  `todo` holds  *)
(* the steps the traversal of the body has left, each step one call of a   *)
(* Function method; the statement at a step is any statement of the        *)
(* language.  The body is followed by the steps that bind `exit`.          *)
(***************************************************************************)
ExitLabel == "exit"

NoInstruction == Instruction("", <<>>)

\* one step: the method to call, the instruction to add, the labels used
Item(step, inst, a, b, c) ==
    [step |-> step, inst |-> inst, a |-> a, b |-> b, c |-> c]

StatementItem == Item("statement", NoInstruction, "", "", "")
AddItem(inst) == Item("add", inst, "", "", "")
PlaceItem(label) == Item("place", NoInstruction, label, "", "")
ExitLoopItem == Item("exit_loop", NoInstruction, "", "", "")

ExpressionItem == Item("expression", NoInstruction, "", "", "")

\* the instruction an expression lowers to: its value in a fresh register
ExpressionInstruction(register) ==
    Instruction("Mov", <<Symbol(register, UnknownType),
                         Literal(1, UnknownType)>>)

Jmp(label) == Instruction("Jmp", <<Label(label)>>)

\* B* c, 0, Ltrue, Lfalse
Branch2(opcode, ltrue, lfalse) ==
    Instruction(opcode, <<Symbol("R", UnknownType), Literal(0, UnknownType),
                          Label(ltrue), Label(lfalse)>>)

\* the end of from_parse_tree_node written the other way round
exit_steps_nop_first ==
    <<AddItem(Instruction("Nop", <<>>)), PlaceItem(ExitLabel)>>

\* place_label_here("exit"); add_instruction(Instruction::new(Nop, vec![]))
exit_steps ==
    <<PlaceItem(ExitLabel), AddItem(Instruction("Nop", <<>>))>>

\* Self::new(); the body statement; the exit label
from_parse_tree_node ==
    /\ FunctionNew
    /\ todo = <<StatementItem>> \o exit_steps
    /\ built = "building"
    /\ lowered = 0

\* the traversal goes on with `rest`; Ok(finalresult) when nothing is left
Advance(rest) ==
    /\ todo' = rest
    /\ built' = IF rest = <<>> THEN "ok" ELSE "building"

AtStep(step) ==
    /\ built = "building"
    /\ todo # <<>>
    /\ todo[1].step = step

\* `;`
RenderEmpty ==
    /\ AtStep("statement")
    /\ Advance(Tail(todo))
    /\ UNCHANGED <<funcVars, lowered>>

\* `e ;`
RenderExpression ==
    /\ AtStep("statement")
    /\ get_register
    /\ Advance(<<AddItem(ExpressionInstruction(ret'.val[1]))>> \o Tail(todo))
    /\ UNCHANGED lowered

\* `return e ;`: Mov %ret, e; Jmp exit
RenderReturn ==
    /\ AtStep("statement")
    /\ add_instruction(Instruction("Mov", <<Symbol("ret", UnknownType),
                                            Symbol("R", UnknownType)>>))
    /\ Advance(<<AddItem(Jmp(ExitLabel))>> \o Tail(todo))
    /\ UNCHANGED lowered

\* `break ;`: Jmp to the top of break_stack, a diagnostic outside a loop
RenderBreak ==
    /\ AtStep("statement")
    /\ get_break
    /\ IF ret'.panic \/ ret'.val = <<>>
       THEN todo' = <<>> /\ built' = "err"
       ELSE Advance(<<AddItem(Jmp(ret'.val[1]))>> \o Tail(todo))
    /\ UNCHANGED lowered

\* `continue ;`
RenderContinue ==
    /\ AtStep("statement")
    /\ get_continue
    /\ IF ret'.panic \/ ret'.val = <<>>
       THEN todo' = <<>> /\ built' = "err"
       ELSE Advance(<<AddItem(Jmp(ret'.val[1]))>> \o Tail(todo))
    /\ UNCHANGED lowered

\* `{ S S }`
RenderStatements ==
    /\ AtStep("statement")
    /\ lowered < MaxStatements
    /\ lowered' = lowered + 1
    /\ Advance(<<StatementItem, StatementItem>> \o Tail(todo))
    /\ UNCHANGED funcVars

\* `if c S1 else S2`: the condition, then the three labels
RenderIf ==
    /\ AtStep("statement")
    /\ lowered < MaxStatements
    /\ lowered' = lowered + 1
    /\ get_register
    /\ Advance(<<AddItem(ExpressionInstruction(ret'.val[1])),
                 Item("if", NoInstruction, "", "", "")>> \o Tail(todo))

\* Ltrue, Lfalse and Lend are minted one get_label at a time; then
\* Beq c, 0, Lfalse, Ltrue; Ltrue: S1; Jmp Lend; Lfalse: S2; Lend:
RenderIfLabels ==
    /\ AtStep("if")
    /\ get_label
    /\ LET label == ret'.val[1]
           item == todo[1]
       IN  IF item.a = ""
           THEN Advance(<<[item EXCEPT !.a = label]>> \o Tail(todo))
           ELSE IF item.b = ""
           THEN Advance(<<[item EXCEPT !.b = label]>> \o Tail(todo))
           ELSE Advance(<<AddItem(Branch2("Beq", item.b, item.a)),
                          PlaceItem(item.a),
                          StatementItem,
                          AddItem(Jmp(label)),
                          PlaceItem(item.b),
                          StatementItem,
                          PlaceItem(label)>> \o Tail(todo))
    /\ UNCHANGED lowered

\* `while c S`: Lhead: c; Beq c, 0, Lend, Lbody; Lbody: S; Jmp Lhead; Lend:
\* with Lhead and Lend the labels of enter_loop
RenderWhile ==
    /\ AtStep("statement")
    /\ lowered < MaxStatements
    /\ lowered' = lowered + 1
    /\ enter_loop
    /\ Advance(<<PlaceItem(ret'.val[1]),
                 ExpressionItem,
                 Item("while", NoInstruction, ret'.val[1], ret'.val[2],
                      "")>> \o Tail(todo))

RenderWhileBody ==
    /\ AtStep("while")
    /\ get_label
    /\ LET body == ret'.val[1]
           item == todo[1]
       IN  Advance(<<AddItem(Branch2("Beq", item.b, body)),
                     PlaceItem(body),
                     StatementItem,
                     ExitLoopItem,
                     AddItem(Jmp(item.a)),
                     PlaceItem(item.b)>> \o Tail(todo))
    /\ UNCHANGED lowered

\* `do S while c`: Lhead: S; c; Bne c, 0, Lhead, Lend; Lend:
RenderDoWhile ==
    /\ AtStep("statement")
    /\ lowered < MaxStatements
    /\ lowered' = lowered + 1
    /\ enter_loop
    /\ Advance(<<PlaceItem(ret'.val[1]),
                 StatementItem,
                 ExitLoopItem,
                 ExpressionItem,
                 AddItem(Branch2("Bne", ret'.val[1], ret'.val[2])),
                 PlaceItem(ret'.val[2])>> \o Tail(todo))

\* `loop S`: Lhead: S; Jmp Lhead; Lend:
RenderLoop ==
    /\ AtStep("statement")
    /\ lowered < MaxStatements
    /\ lowered' = lowered + 1
    /\ enter_loop
    /\ Advance(<<PlaceItem(ret'.val[1]),
                 StatementItem,
                 ExitLoopItem,
                 AddItem(Jmp(ret'.val[1])),
                 PlaceItem(ret'.val[2])>> \o Tail(todo))

StepAdd ==
    /\ AtStep("add")
    /\ add_instruction(todo[1].inst)
    /\ Advance(Tail(todo))
    /\ UNCHANGED lowered

\* an expression met later in the traversal: its register, then its code
StepExpression ==
    /\ AtStep("expression")
    /\ get_register
    /\ Advance(<<AddItem(ExpressionInstruction(ret'.val[1]))>> \o Tail(todo))
    /\ UNCHANGED lowered

StepPlace ==
    /\ AtStep("place")
    /\ place_label_here(todo[1].a)
    /\ Advance(Tail(todo))
    /\ UNCHANGED lowered

StepExitLoop ==
    /\ AtStep("exit_loop")
    /\ exit_loop
    /\ Advance(Tail(todo))
    /\ UNCHANGED lowered

(***************************************************************************)
(* The LLVM emitter: FunctionGenerationContext of                          *)
(* src/codegen/llvm/functions.rs.  Text is modelled by strings; `result`   *)
(* is the sequence of the pieces appended to the output, in order.         *)
(***************************************************************************)
SignedTypes == {"I8", "I16", "I32", "I64"}

\* DataType::is_signed
is_signed(datatype) ==
    datatype.raw_type \in SignedTypes /\ datatype.num_ptr = 0

\* bytes_size_of: the byte size of a value of the type
bytes_size_of(datatype) ==
    IF datatype.num_ptr > 0 THEN 8
    ELSE CASE datatype.raw_type \in {"I8", "U8"} -> 1
           [] datatype.raw_type \in {"I16", "U16"} -> 2
           [] datatype.raw_type \in {"I32", "U32"} -> 4
           [] datatype.raw_type \in {"I64", "U64"} -> 8
           [] OTHER -> 0

RECURSIVE pointer_stars(_)
pointer_stars(n) == IF n = 0 THEN "" ELSE "*" \o pointer_stars(n - 1)

\* convert_to_llvm: the LLVM spelling of the type
convert_to_llvm(datatype) ==
    (CASE datatype.raw_type \in {"I8", "U8"} -> "i8"
       [] datatype.raw_type \in {"I16", "U16"} -> "i16"
       [] datatype.raw_type \in {"I32", "U32"} -> "i32"
       [] datatype.raw_type \in {"I64", "U64"} -> "i64"
       [] OTHER -> "void") \o pointer_stars(datatype.num_ptr)

\* get_value_type(value).unwrap(): a Label has no type
get_value_type(value) ==
    IF value.value = "Label" THEN UnknownType ELSE value.datatype

LLVMValue(ptr, datatype) == [ptr |-> ptr, datatype |-> datatype]

get_datatype(value) == value.datatype

get_pointer_datatype(value) ==
    [value.datatype EXCEPT !.num_ptr = @ + 1]

\* FunctionGenerationContext::new(func), without func
NewContext ==
    [values |-> EmptyMap, next_temp |-> 0, result |-> <<>>,
     current_arguments |-> ""]

\* what a method leaves: the context after it, the string it returns, and
\* whether it panicked
Out(c, text) == [ctx |-> c, out |-> text, panic |-> FALSE]
PanicOut(c) == [ctx |-> c, out |-> "", panic |-> TRUE]

\* one method call after another on the same context; a panic ends them
AndThen(step, Rest(_)) == IF step.panic THEN step ELSE Rest(step)

\* self.result += text
append_result(c, text) == [c EXCEPT !.result = Append(@, text)]

insert_command(c, cmd) ==
    Out(append_result(c, "    " \o cmd \o "\n"), "")

get_next_temp(c) ==
    Out([c EXCEPT !.next_temp = @ + 1],
        "%V" \o to_string((c.next_temp + 1) - 1))

create_new_value(c, title, datatype) ==
    AndThen(get_next_temp(c), LAMBDA ptr :
        insert_command(
            [ptr.ctx EXCEPT
                !.values = Insert(@, title, LLVMValue(ptr.out, datatype))],
            ptr.out \o " = alloca " \o convert_to_llvm(datatype)
                    \o ", align " \o to_string(bytes_size_of(datatype))))

\* if !self.values.contains_key(&var.title) { create_new_value(..) }
value_of(c, var) ==
    IF var.title \in DOMAIN c.values THEN Out(c, "")
    ELSE create_new_value(c, var.title, var.datatype)

get_reference(c, var, include_type) ==
    AndThen(value_of(c, var), LAMBDA v :
        Out(v.ctx,
            IF include_type
            THEN convert_to_llvm(
                     get_pointer_datatype(v.ctx.values[var.title]))
                 \o " " \o v.ctx.values[var.title].ptr
            ELSE v.ctx.values[var.title].ptr))

get_value(c, var, include_type) ==
    AndThen(value_of(c, var), LAMBDA v :
    AndThen(get_next_temp(v.ctx), LAMBDA reg :
    AndThen(insert_command(reg.ctx,
                reg.out \o " = load "
                \o convert_to_llvm(get_datatype(v.ctx.values[var.title]))
                \o ", "
                \o convert_to_llvm(
                       get_pointer_datatype(v.ctx.values[var.title]))
                \o " " \o v.ctx.values[var.title].ptr
                \o ", align " \o to_string(bytes_size_of(var.datatype))),
            LAMBDA load :
        Out(load.ctx,
            IF include_type
            THEN IF ~(/\ get_datatype(v.ctx.values[var.title]).raw_type
                           = "Void"
                      /\ get_datatype(v.ctx.values[var.title]).num_ptr = 0)
                 THEN convert_to_llvm(get_datatype(v.ctx.values[var.title]))
                      \o " " \o reg.out
                 ELSE convert_to_llvm(get_datatype(v.ctx.values[var.title]))
            ELSE reg.out))))

render_value(c, val, include_type) ==
    CASE val.value = "Label" -> Out(c, "label %" \o val.name)
      [] val.value = "Literal" ->
           IF ~(val.datatype.raw_type = "Void" /\ val.datatype.num_ptr = 0)
           THEN IF val.datatype.num_ptr = 0 /\ ~val.datatype.is_ref
                THEN IF include_type
                     THEN Out(c, convert_to_llvm(val.datatype) \o " "
                                 \o to_string(val.literal))
                     ELSE Out(c, to_string(val.literal))
                ELSE IF include_type
                     THEN Out(c, convert_to_llvm(val.datatype)
                                 \o " inttoptr (i64 "
                                 \o to_string(val.literal) \o " to "
                                 \o convert_to_llvm(val.datatype) \o ")")
                     ELSE Out(c, "inttoptr (i64 "
                                 \o to_string(val.literal) \o " to "
                                 \o convert_to_llvm(val.datatype) \o ")")
           ELSE IF include_type
                THEN Out(c, convert_to_llvm(val.datatype))
                ELSE Out(c, "")
      [] OTHER -> get_value(c, val, include_type)

\* panic!("The pointer of a label?!"), panic!("The pointer of a literal?!")
render_pointer(c, val) ==
    IF val.value = "Symbol" THEN get_reference(c, val, TRUE)
    ELSE PanicOut(c)

add_move(c, dest, src) ==
    IF dest.value = "Label" THEN Out(c, "")
    ELSE IF ~dest.datatype.is_ref
    THEN AndThen(render_pointer(c, dest), LAMBDA val0 :
             insert_command(val0.ctx, "store " \o src \o ", " \o val0.out))
    ELSE AndThen(render_value(c, dest, TRUE), LAMBDA val0 :
             insert_command(val0.ctx, "store " \o src \o ", " \o val0.out))

add_compare(c, command, dest, src0, src1) ==
    AndThen(render_value(c, src0, TRUE), LAMBDA val0 :
    AndThen(render_value(val0.ctx, src1, FALSE), LAMBDA val1 :
        insert_command(val1.ctx,
            dest \o " = icmp " \o command \o " " \o val0.out \o ", "
                 \o val1.out)))

\* insert_label: a `br` to the label, then the label as a block header
insert_label(c, label) ==
    AndThen(render_value(c, Label(label), FALSE), LAMBDA l :
    AndThen(insert_command(l.ctx, "br " \o l.out), LAMBDA br :
        Out(append_result(br.ctx, "\n  " \o label \o ":\n"), "")))

(***************************************************************************)
(* render_function, one definition per arm of `match &inst.opcode`.        *)
(* inst.arguments[k] of the source is inst.arguments[k + 1] here.          *)
(***************************************************************************)
\* OpCode::Ret
render_ret(c, inst) ==
    AndThen(render_value(c, inst.arguments[1], TRUE), LAMBDA val :
        insert_command(val.ctx, "ret " \o val.out))

\* OpCode::Mov | OpCode::Alloc
render_mov(c, inst) ==
    AndThen(render_value(c, inst.arguments[2], TRUE), LAMBDA val :
        add_move(val.ctx, inst.arguments[1], val.out))

\* a remainder that looks at the type of the second operand
mod_command_operand2(inst) ==
    IF is_signed(get_value_type(inst.arguments[3]))
    THEN "srem" ELSE "urem"

\* OpCode::Mod: if get_value_type(&inst.arguments[1]).unwrap().is_signed()
mod_command(inst) ==
    IF is_signed(get_value_type(inst.arguments[2]))
    THEN "srem" ELSE "urem"

\* OpCode::Shr
shr_command(inst) ==
    IF is_signed(get_value_type(inst.arguments[2]))
    THEN "lshr" ELSE "ashr"

\* OpCode::Div
div_command(inst) == "div"

\* the LLVM instruction of an arithmetic, bitwise or shift opcode
binary_command(inst) ==
    CASE inst.opcode = "Add" -> "add"
      [] inst.opcode = "Sub" -> "sub"
      [] inst.opcode = "Mul" -> "mul"
      [] inst.opcode = "Div" -> div_command(inst)
      [] inst.opcode = "And" -> "and"
      [] inst.opcode = "Or" -> "or"
      [] inst.opcode = "Xor" -> "xor"
      [] inst.opcode = "Mod" -> mod_command(inst)
      [] inst.opcode = "Shl" -> "shl"
      [] inst.opcode = "Shr" -> shr_command(inst)

BinaryOpCodes ==
    {"Add", "Sub", "Mul", "Div", "And", "Or", "Xor", "Mod", "Shl", "Shr"}

\* temp = <command> val0, val1; store temp into arguments[0]
render_binary(c, inst) ==
    AndThen(get_next_temp(c), LAMBDA temp :
    AndThen(render_value(temp.ctx, inst.arguments[2], TRUE), LAMBDA val0 :
    AndThen(render_value(val0.ctx, inst.arguments[3], FALSE), LAMBDA val1 :
    AndThen(insert_command(val1.ctx,
                temp.out \o " = " \o binary_command(inst) \o " "
                \o val0.out \o ", " \o val1.out), LAMBDA cmd :
        add_move(cmd.ctx, inst.arguments[1],
                 convert_to_llvm(get_value_type(inst.arguments[1]))
                 \o " " \o temp.out)))))

CompareOpCodes == {"Cne", "Ceq", "Cge", "Cgt", "Cle", "Clt"}
BranchOpCodes == {"Bne", "Beq", "Bge", "Bgt", "Ble", "Blt"}

\* a predicate that is always the signed one
condition_always_signed(opcode, signed) ==
    CASE opcode \in {"Cne", "Bne"} -> "ne"
      [] opcode \in {"Ceq", "Beq"} -> "eq"
      [] opcode \in {"Cge", "Bge"} -> "sge"
      [] opcode \in {"Cle", "Ble"} -> "sle"
      [] opcode \in {"Cgt", "Bgt"} -> "sgt"
      [] opcode \in {"Clt", "Blt"} -> "slt"

\* `match &inst.opcode { Cne => "ne", .., Cge => if is_signed {..} .. }`
condition(opcode, signed) ==
    CASE opcode \in {"Cne", "Bne"} -> "ne"
      [] opcode \in {"Ceq", "Beq"} -> "eq"
      [] opcode \in {"Cge", "Bge"} -> IF signed THEN "sge" ELSE "uge"
      [] opcode \in {"Cle", "Ble"} -> IF signed THEN "sle" ELSE "ule"
      [] opcode \in {"Cgt", "Bgt"} -> IF signed THEN "sgt" ELSE "ugt"
      [] opcode \in {"Clt", "Blt"} -> IF signed THEN "slt" ELSE "ult"

\* OpCode::Cne | Ceq | Cge | Cgt | Cle | Clt
render_compare(c, inst) ==
    AndThen(get_next_temp(c), LAMBDA temp :
    AndThen(get_next_temp(temp.ctx), LAMBDA temp2 :
    AndThen(add_compare(temp2.ctx,
                condition(inst.opcode,
                          is_signed(get_value_type(inst.arguments[2]))),
                temp.out, inst.arguments[2], inst.arguments[3]),
            LAMBDA cmp :
    AndThen(insert_command(cmp.ctx,
                temp2.out \o " = zext i1 " \o temp.out \o " to "
                \o convert_to_llvm(get_value_type(inst.arguments[1]))),
            LAMBDA zext :
        add_move(zext.ctx, inst.arguments[1],
                 convert_to_llvm(get_value_type(inst.arguments[1]))
                 \o " " \o temp2.out)))))

\* a branch that goes to the fourth argument when the test holds
branch_command_swapped(temp, label_true, label_false) ==
    "br i1 " \o temp \o ", " \o label_false \o ", " \o label_true

\* format!("br i1 {}, {}, {}", &temp, label_true, label_false)
branch_command(temp, label_true, label_false) ==
    "br i1 " \o temp \o ", " \o label_true \o ", " \o label_false

\* OpCode::Bne | Beq | Bge | Bgt | Ble | Blt
render_branch(c, inst) ==
    AndThen(get_next_temp(c), LAMBDA temp :
    AndThen(render_value(temp.ctx, inst.arguments[3], TRUE),
            LAMBDA label_true :
    AndThen(render_value(label_true.ctx, inst.arguments[4], TRUE),
            LAMBDA label_false :
    AndThen(add_compare(label_false.ctx,
                condition(inst.opcode,
                          is_signed(get_value_type(inst.arguments[1]))),
                temp.out, inst.arguments[1], inst.arguments[2]),
            LAMBDA cmp :
        insert_command(cmp.ctx,
            branch_command(temp.out, label_true.out, label_false.out))))))

\* OpCode::Jmp
render_jmp(c, inst) ==
    AndThen(render_value(c, inst.arguments[1], TRUE), LAMBDA label :
        insert_command(label.ctx, "br " \o label.out))

\* OpCode::Push
render_push(c, inst) ==
    AndThen(render_value(c, inst.arguments[1], TRUE), LAMBDA arg :
        Out([arg.ctx EXCEPT !.current_arguments = @ \o arg.out \o ", "], ""))

\* String::pop: removes the last character, if there is one
pop(text) ==
    IF Len(text) = 0 THEN text ELSE SubSeq(text, 1, Len(text) - 1)

\* a call that does not empty the argument buffer
call_arguments_kept(c) ==
    [c EXCEPT !.current_arguments = @]

\* self.current_arguments = String::new()
call_arguments_cleared(c) ==
    [c EXCEPT !.current_arguments = ""]

\* if self.current_arguments.len() > 0 { pop(); pop(); }
call_arguments_trimmed(c) ==
    IF Len(c.current_arguments) > 0
    THEN [c EXCEPT !.current_arguments = pop(pop(@))]
    ELSE c

\* OpCode::Call
render_call(c, inst) ==
    AndThen(get_next_temp(c), LAMBDA temp :
        IF inst.arguments[2].value = "Label"
        THEN AndThen(insert_command(call_arguments_trimmed(temp.ctx),
                        temp.out \o " = call "
                        \o convert_to_llvm(get_value_type(inst.arguments[1]))
                        \o " @" \o inst.arguments[2].name \o "("
                        \o call_arguments_trimmed(temp.ctx).current_arguments
                        \o ")"), LAMBDA cmd :
                 add_move(call_arguments_cleared(cmd.ctx), inst.arguments[1],
                     convert_to_llvm(get_value_type(inst.arguments[1]))
                     \o " " \o temp.out))
        ELSE temp)

\* OpCode::Cast: the value converted so far and the LLVM type it has
Current(c, current, current_type) ==
    [ctx |-> c, out |-> current, type |-> current_type, panic |-> FALSE]

\* next = <conversion> current_type current to next_type
convert(cur, conversion, next_type) ==
    AndThen(get_next_temp(cur.ctx), LAMBDA next :
    AndThen(insert_command(next.ctx,
                next.out \o " = " \o conversion \o " " \o cur.type \o " "
                \o cur.out \o " to " \o next_type), LAMBDA cmd :
        Current(cmd.ctx, next.out, next_type)))

\* if dest_type.num_ptr == 0 {convert_to_llvm(&dest_type)} else {"i64"}
cast_integer_type(dest_type) ==
    IF dest_type.num_ptr = 0 THEN convert_to_llvm(dest_type) ELSE "i64"

\* if dest_type.is_signed() {"sext"} else {"zext"}
extension(dest_type, src_type) ==
    IF is_signed(dest_type) THEN "sext" ELSE "zext"

\* if src_type.num_ptr > 0 { ptrtoint .. to i64 }
cast_pointer_source(cur, src_type) ==
    IF src_type.num_ptr > 0 THEN convert(cur, "ptrtoint", "i64") ELSE cur

\* trunc when the destination is smaller, sext or zext when it is larger
cast_resize(cur, dest_type, src_type) ==
    IF /\ bytes_size_of(dest_type) < bytes_size_of(src_type)
       /\ cur.type # cast_integer_type(dest_type)
    THEN convert(cur, "trunc", cast_integer_type(dest_type))
    ELSE IF /\ bytes_size_of(dest_type) > bytes_size_of(src_type)
            /\ cur.type # cast_integer_type(dest_type)
    THEN convert(cur, extension(dest_type, src_type),
                 cast_integer_type(dest_type))
    ELSE cur

\* if dest_type.num_ptr > 0 { inttoptr or bitcast }
cast_pointer_destination(cur, dest_type, src_type) ==
    IF dest_type.num_ptr > 0
    THEN IF src_type.num_ptr = 0
         THEN convert(cur, "inttoptr", convert_to_llvm(dest_type))
         ELSE convert(cur, "bitcast", convert_to_llvm(dest_type))
    ELSE cur

render_cast(c, inst) ==
    AndThen(render_value(c, inst.arguments[2], FALSE), LAMBDA src :
    AndThen(cast_pointer_source(
                Current(src.ctx, src.out,
                        convert_to_llvm(get_value_type(inst.arguments[2]))),
                get_value_type(inst.arguments[2])), LAMBDA int :
    AndThen(IF convert_to_llvm(get_value_type(inst.arguments[1]))
                 # convert_to_llvm(get_value_type(inst.arguments[2]))
            THEN AndThen(cast_resize(int,
                             get_value_type(inst.arguments[1]),
                             get_value_type(inst.arguments[2])),
                         LAMBDA sized :
                     cast_pointer_destination(sized,
                         get_value_type(inst.arguments[1]),
                         get_value_type(inst.arguments[2])))
            ELSE int, LAMBDA cur :
        add_move(cur.ctx, inst.arguments[1], cur.type \o " " \o cur.out))))

\* OpCode::Deref; self.values.get(&var.title).unwrap() panics on a symbol
\* that has no slot yet
render_deref(c, inst) ==
    IF inst.arguments[1].value = "Symbol"
    THEN AndThen(get_next_temp(c), LAMBDA reg :
         IF inst.arguments[1].title \notin DOMAIN reg.ctx.values
         THEN PanicOut(reg.ctx)
         ELSE
         AndThen(render_value(reg.ctx, inst.arguments[2], TRUE), LAMBDA val :
         AndThen(insert_command(val.ctx,
                     reg.out \o " = load "
                     \o convert_to_llvm(get_datatype(
                            reg.ctx.values[inst.arguments[1].title]))
                     \o ", " \o val.out \o ", align "
                     \o to_string(bytes_size_of(
                            inst.arguments[1].datatype))), LAMBDA cmd :
             add_move(cmd.ctx, inst.arguments[1],
                 convert_to_llvm(get_datatype(
                     reg.ctx.values[inst.arguments[1].title]))
                 \o " " \o reg.out))))
    ELSE Out(c, "")

\* OpCode::Ref
render_ref(c, inst) ==
    IF inst.arguments[1].value = "Symbol" /\ inst.arguments[2].value = "Symbol"
    THEN IF \/ inst.arguments[1].title \notin DOMAIN c.values
            \/ inst.arguments[2].title \notin DOMAIN c.values
         THEN PanicOut(c)
         ELSE add_move(c, inst.arguments[1],
                  convert_to_llvm(get_pointer_datatype(
                      c.values[inst.arguments[1].title]))
                  \o " " \o c.values[inst.arguments[2].title].ptr)
    ELSE Out(c, "")

\* OpCode::Array
render_array(c, inst) ==
    AndThen(get_next_temp(c), LAMBDA temp :
    AndThen(get_next_temp(temp.ctx), LAMBDA temp2 :
    AndThen(render_value(temp2.ctx, inst.arguments[2], TRUE), LAMBDA val0 :
    AndThen(render_value(val0.ctx, inst.arguments[3], TRUE), LAMBDA val1 :
    AndThen(insert_command(val1.ctx,
                temp.out \o " = getelementptr "
                \o convert_to_llvm(get_value_type(inst.arguments[1]))
                \o ", " \o val0.out \o ", " \o val1.out), LAMBDA gep :
    AndThen(insert_command(gep.ctx,
                temp2.out \o " = load "
                \o convert_to_llvm(get_value_type(inst.arguments[1]))
                \o ", "
                \o convert_to_llvm(get_value_type(inst.arguments[2]))
                \o " " \o temp.out \o ", align "
                \o to_string(bytes_size_of(
                       get_value_type(inst.arguments[1])))), LAMBDA load :
        add_move(load.ctx, inst.arguments[1],
                 convert_to_llvm(get_value_type(inst.arguments[1]))
                 \o " " \o temp2.out)))))))

\* `match &inst.opcode`
render_opcode(c, inst) ==
    CASE inst.opcode = "Ret" -> render_ret(c, inst)
      [] inst.opcode \in {"Mov", "Alloc"} -> render_mov(c, inst)
      [] inst.opcode = "Cast" -> render_cast(c, inst)
      [] inst.opcode = "Deref" -> render_deref(c, inst)
      [] inst.opcode = "Ref" -> render_ref(c, inst)
      [] inst.opcode \in CompareOpCodes -> render_compare(c, inst)
      [] inst.opcode \in BranchOpCodes -> render_branch(c, inst)
      [] inst.opcode \in BinaryOpCodes -> render_binary(c, inst)
      [] inst.opcode = "Array" -> render_array(c, inst)
      [] inst.opcode = "Push" -> render_push(c, inst)
      [] inst.opcode = "Call" -> render_call(c, inst)
      [] inst.opcode = "Jmp" -> render_jmp(c, inst)
      [] OTHER -> Out(c, "")

(***************************************************************************)
(* render_function as a whole: the header, one step per symbol of the      *)
(* prologue, one step per instruction of the body, the closing brace.      *)
(***************************************************************************)
RECURSIVE pad(_, _)
\* format!("{:<width$}", text)
pad(text, width) ==
    IF Len(text) < width THEN pad(text \o " ", width) ELSE text

LowerOf ==
    [c \in {"A", "B", "C", "D", "J", "M", "N", "O", "P", "R", "S", "X"} |->
        CASE c = "A" -> "a" [] c = "B" -> "b" [] c = "C" -> "c"
          [] c = "D" -> "d" [] c = "J" -> "j" [] c = "M" -> "m"
          [] c = "N" -> "n" [] c = "O" -> "o" [] c = "P" -> "p"
          [] c = "R" -> "r" [] c = "S" -> "s" [] c = "X" -> "x"]

RECURSIVE to_lowercase(_)
\* str::to_lowercase on the names of the opcodes
to_lowercase(text) ==
    IF Len(text) = 0 THEN text
    ELSE (IF SubSeq(text, 1, 1) \in DOMAIN LowerOf
          THEN LowerOf[SubSeq(text, 1, 1)]
          ELSE SubSeq(text, 1, 1))
         \o to_lowercase(SubSeq(text, 2, Len(text)))

\* Display of Value: "%title (type)", "value (type)", the label's name
value_text(value) ==
    CASE value.value = "Symbol" ->
           "%" \o value.title \o " (" \o convert_to_llvm(value.datatype)
           \o ")"
      [] value.value = "Label" -> value.name
      [] OTHER ->
           to_string(value.literal) \o " ("
           \o convert_to_llvm(value.datatype) \o ")"

RECURSIVE arguments_text(_, _)
arguments_text(arguments, k) ==
    IF k > Len(arguments) THEN ""
    ELSE pad(value_text(arguments[k]), 15) \o arguments_text(arguments, k + 1)

\* Display of Instruction: the opcode in a column of 7, the arguments in
\* columns of 15
instruction_text(inst) ==
    pad(to_lowercase(inst.opcode), 7) \o arguments_text(inst.arguments, 1)

\* format!("{} %{}", convert_to_llvm(datatype), name)
argument_text(argument) ==
    convert_to_llvm(argument.datatype) \o " %" \o argument.name

RECURSIVE argument_list(_, _, _)
\* for (i, (name, datatype)) in func.arguments.iter().enumerate()
argument_list(c, arguments, i) ==
    IF i >= Len(arguments) THEN c
    ELSE argument_list(
             IF i < Len(arguments) - 1
             THEN append_result(
                      append_result(c, argument_text(arguments[i + 1])),
                      ", ")
             ELSE append_result(c, argument_text(arguments[i + 1])),
             arguments, i + 1)

\* func.get_all_symbols(): every symbol of the function
get_all_symbols(f) == f.symbols

\* self.result = String::new(); "define <ret> @<name>(<arguments>)\n{\n"
render_header(c, f) ==
    append_result(
        append_result(
            argument_list(
                append_result(
                    append_result([c EXCEPT !.result = <<>>],
                        "define " \o convert_to_llvm(f.return_type) \o " @"
                        \o f.name),
                    "("),
                f.arguments, 0),
            ")\n"),
        "{\n")

RECURSIVE store_arguments(_, _, _, _)
\* for arg in &argument_names { if symbol.title == arg.0 { add_move } }
store_arguments(c, symbol, arguments, k) ==
    IF k > Len(arguments) THEN Out(c, "")
    ELSE IF symbol.title = arguments[k].name
    THEN AndThen(add_move(c, symbol, argument_text(arguments[k])),
                 LAMBDA move :
                    store_arguments(move.ctx, symbol, arguments, k + 1))
    ELSE store_arguments(c, symbol, arguments, k + 1)

\* if symbol.datatype.raw_type == NonPtrType::Void { continue; }
\* create_new_value(..); then the store of the argument of that name
allocate_symbol(c, symbol, arguments) ==
    IF symbol.datatype.raw_type = "Void"
    THEN Out(c, "")
    ELSE AndThen(create_new_value(c, symbol.title, symbol.datatype),
                 LAMBDA slot :
                    store_arguments(slot.ctx, symbol, arguments, 1))

RECURSIVE insert_labels(_, _, _)
\* for label in labels { self.insert_label(label.as_str()); }
insert_labels(c, names, k) ==
    IF k > Len(names) THEN Out(c, "")
    ELSE AndThen(insert_label(c, names[k]), LAMBDA l :
                    insert_labels(l.ctx, names, k + 1))

\* one round of `for i in 0..self.func.instructions.len()`
render_instruction(c, f, i) ==
    AndThen(insert_labels(c, IF i \in DOMAIN f.labels THEN f.labels[i]
                             ELSE <<>>, 1), LAMBDA l :
        render_opcode(
            append_result(l.ctx,
                "\n; " \o instruction_text(f.instructions[i + 1]) \o "\n"),
            f.instructions[i + 1]))

\* the step leaves the context `step.ctx`; a panic ends render_function
Rendered(step, next_stage, next_cursor) ==
    /\ ctx' = step.ctx
    /\ stage' = IF step.panic THEN "panic" ELSE next_stage
    /\ cursor' = next_cursor
    /\ UNCHANGED func

RenderHeader ==
    /\ stage = "start"
    /\ Rendered(Out(render_header(ctx, func), ""),
                IF Len(get_all_symbols(func)) = 0 THEN "body" ELSE "symbols",
                0)

AllocateSymbol ==
    /\ stage = "symbols"
    /\ cursor < Len(get_all_symbols(func))
    /\ Rendered(allocate_symbol(ctx, get_all_symbols(func)[cursor + 1],
                                func.arguments),
                IF cursor + 1 = Len(get_all_symbols(func))
                THEN "body" ELSE "symbols",
                IF cursor + 1 = Len(get_all_symbols(func))
                THEN 0 ELSE cursor + 1)

RenderInstruction ==
    /\ stage = "body"
    /\ cursor < Len(func.instructions)
    /\ Rendered(render_instruction(ctx, func, cursor), "body", cursor + 1)

\* self.result += "}\n"; Ok(self.result.clone())
RenderEnd ==
    /\ stage = "body"
    /\ cursor = Len(func.instructions)
    /\ Rendered(Out(append_result(ctx, "}\n"), ""), "done", cursor)

(***************************************************************************)
(* The functions handed to the emitter.                                    *)
(***************************************************************************)
Scalar(raw_type) == DataType(raw_type, 0, FALSE)

ScalarTypes ==
    { Scalar(r) : r \in {"I8", "U8", "I32", "U32", "I64", "U64"} }

PointerTypes ==
    { DataType(r, n, FALSE) : r \in {"I32", "Void"}, n \in 1..MaxStars }

IRFunction(return_type, arguments, locals, insts, bound) ==
    [return_type |-> return_type,
     name |-> "f",
     arguments |-> arguments,
     symbols |-> [k \in 1..Len(arguments) |->
                     Symbol(arguments[k].name, arguments[k].datatype)]
                 \o locals,
     instructions |-> insts,
     labels |-> bound]

Argument(name, datatype) == [name |-> name, datatype |-> datatype]

\* R0 = a <op> b; ret R0
BinaryFunctions ==
    { IRFunction(t1, <<Argument("a", t1), Argument("b", t2)>>,
                 <<Symbol("R0", IF op \in CompareOpCodes THEN t2 ELSE t1)>>,
                 <<Instruction(op,
                      <<Symbol("R0", IF op \in CompareOpCodes THEN t2 ELSE t1),
                        Symbol("a", t1), Symbol("b", t2)>>),
                   Instruction("Ret",
                      <<Symbol("R0",
                               IF op \in CompareOpCodes THEN t2 ELSE t1)>>)>>,
                 EmptyMap) :
        op \in BinaryOpCodes \cup CompareOpCodes,
        t1 \in ScalarTypes, t2 \in ScalarTypes }

\* R0 = a <op> 3; ret R0
LiteralFunctions ==
    { IRFunction(t1, <<Argument("a", t1)>>, <<Symbol("R0", t1)>>,
                 <<Instruction(op, <<Symbol("R0", t1), Symbol("a", t1),
                                     Literal(3, t1)>>),
                   Instruction("Ret", <<Symbol("R0", t1)>>)>>,
                 EmptyMap) :
        op \in {"Mod", "Shr", "Div", "Clt"}, t1 \in ScalarTypes }

\* R0 = a as T; ret R0
CastFunctions ==
    { IRFunction(dst, <<Argument("a", src)>>, <<Symbol("R0", dst)>>,
                 <<Instruction("Cast", <<Symbol("R0", dst),
                                         Symbol("a", src)>>),
                   Instruction("Ret", <<Symbol("R0", dst)>>)>>,
                 EmptyMap) :
        src \in ScalarTypes \cup PointerTypes,
        dst \in ScalarTypes \cup PointerTypes }

CallInstructions ==
    { Instruction("Push", <<Symbol("a", Scalar("I32"))>>),
      Instruction("Push", <<Literal(7, Scalar("I64"))>>),
      Instruction("Call", <<Symbol("R0", Scalar("I32")), Label("g")>>) }

CallSequences ==
    UNION { [1..n -> CallInstructions] : n \in 1..MaxCallSequence }

CallFunctions ==
    { IRFunction(Scalar("I32"), <<Argument("a", Scalar("I32"))>>,
                 <<Symbol("R0", Scalar("I32"))>>, insts, EmptyMap) :
        insts \in CallSequences }

ParameterTypes ==
    { Scalar("I32"), Scalar("U8") }
    \cup { DataType(r, 1, FALSE) : r \in {"I32", "Void"} }

ParameterNames == <<"p", "q", "r", "s">>

ParameterLists ==
    UNION { { [k \in 1..n |-> Argument(ParameterNames[k], types[k])] :
                 types \in [1..n -> ParameterTypes] } :
            n \in 0..MaxParameters }

\* ret p, or ret 0 without a parameter
ParameterFunctions ==
    { IRFunction(IF Len(arguments) = 0 THEN Scalar("I32")
                 ELSE arguments[1].datatype,
                 arguments, <<>>,
                 <<Instruction("Ret",
                      <<IF Len(arguments) = 0
                        THEN Literal(0, Scalar("I32"))
                        ELSE Symbol(arguments[1].name,
                                    arguments[1].datatype)>>)>>,
                 EmptyMap) :
        arguments \in ParameterLists }

\* a loop with its labels, a move, an address, a load through a pointer, an
\* element of an array
OtherFunctions ==
    { IRFunction(Scalar("I32"),
          <<Argument("a", Scalar("I32")), Argument("p", DataType("I32", 1, FALSE))>>,
          <<Symbol("R0", Scalar("I32")), Symbol("R1", DataType("I32", 1, FALSE))>>,
          <<Instruction("Blt", <<Symbol("a", Scalar("I32")),
                                 Literal(9, Scalar("I32")),
                                 Label("L1"), Label("L0")>>),
            Instruction("Alloc", <<Symbol("R0", Scalar("I32")),
                                   Literal(1, Scalar("I32"))>>),
            Instruction("Jmp", <<Label("L0")>>),
            Instruction("Ref", <<Symbol("R1", DataType("I32", 1, FALSE)),
                                 Symbol("R0", Scalar("I32"))>>),
            Instruction("Deref", <<Symbol("R0", Scalar("I32")),
                                   Symbol("p", DataType("I32", 1, FALSE))>>),
            Instruction("Array", <<Symbol("R0", Scalar("I32")),
                                   Symbol("p", DataType("I32", 1, FALSE)),
                                   Symbol("a", Scalar("I32"))>>),
            Instruction("Mov", <<Symbol("R0", DataType("I32", 0, TRUE)),
                                 Symbol("a", Scalar("I32"))>>),
            Instruction("Mov", <<Symbol("ret", Scalar("I32")),
                                 Symbol("R0", Scalar("I32"))>>),
            Instruction("Nop", <<>>)>>,
          [i \in {0, 1, 8} |->
              CASE i = 0 -> <<"L0">> [] i = 1 -> <<"L1">>
                [] OTHER -> <<"L2", "exit">>]) }

\* `i32 main() { return 0; }` as from_parse_tree_node leaves it, in the two
\* lowerings of `return`: Ret 0, or Mov %ret, 0 and Jmp exit; then the `exit`
\* label on the terminal Nop
LoweredFunctions ==
    { IRFunction(Scalar("I32"), <<>>, <<>>,
                 <<Instruction("Ret", <<Literal(0, Scalar("I32"))>>),
                   Instruction("Nop", <<>>)>>,
                 [i \in {1} |-> <<ExitLabel>>]),
      IRFunction(Scalar("I32"), <<>>, <<Symbol("ret", Scalar("I32"))>>,
                 <<Instruction("Mov", <<Symbol("ret", Scalar("I32")),
                                        Literal(0, Scalar("I32"))>>),
                   Instruction("Jmp", <<Label(ExitLabel)>>),
                   Instruction("Nop", <<>>)>>,
                 [i \in {2} |-> <<ExitLabel>>]) }

\* `T f(T V0) { return V0; }`: a parameter named as a temporary is
NamedFunctions ==
    { IRFunction(t, <<Argument("V0", t)>>, <<>>,
                 <<Instruction("Ret", <<Symbol("V0", t)>>)>>, EmptyMap) :
        t \in ParameterTypes }

\* `if c ; else ;` as the lowering leaves it, for each branch opcode:
\* B* c, 0, L1, L0; L0: Jmp L2; L1: L2: exit: Nop
BranchFunctions ==
    { IRFunction(Scalar("I32"), <<Argument("c", t)>>, <<>>,
                 <<Instruction(op, <<Symbol("c", t), Literal(0, t),
                                     Label("L1"), Label("L0")>>),
                   Instruction("Jmp", <<Label("L2")>>),
                   Instruction("Nop", <<>>)>>,
                 [i \in {1, 2} |->
                     IF i = 1 THEN <<"L0">> ELSE <<"L1", "L2", ExitLabel>>]) :
        op \in BranchOpCodes, t \in ScalarTypes }

\* `void* g(void** p) { return *p; }` and `void** h(void* p) { return &p; }`
VoidFunctions ==
    { IRFunction(DataType("Void", 1, FALSE),
                 <<Argument("p", DataType("Void", 2, FALSE))>>,
                 <<Symbol("R0", DataType("Void", 1, FALSE))>>,
                 <<Instruction("Deref",
                       <<Symbol("R0", DataType("Void", 1, FALSE)),
                         Symbol("p", DataType("Void", 2, FALSE))>>),
                   Instruction("Ret",
                       <<Symbol("R0", DataType("Void", 1, FALSE))>>)>>,
                 EmptyMap),
      IRFunction(DataType("Void", 2, FALSE),
                 <<Argument("p", DataType("Void", 1, FALSE))>>,
                 <<Symbol("R0", DataType("Void", 2, FALSE))>>,
                 <<Instruction("Ref",
                       <<Symbol("R0", DataType("Void", 2, FALSE)),
                         Symbol("p", DataType("Void", 1, FALSE))>>),
                   Instruction("Ret",
                       <<Symbol("R0", DataType("Void", 2, FALSE))>>)>>,
                 EmptyMap) }

EmitFunctions ==
    BinaryFunctions \cup LiteralFunctions \cup CastFunctions
    \cup CallFunctions \cup ParameterFunctions \cup OtherFunctions
    \cup LoweredFunctions \cup NamedFunctions \cup VoidFunctions
    \cup BranchFunctions

(***************************************************************************)
(* Type mutation (utils.rs 10-90).                                         *)
(***************************************************************************)
\* correct_type_references: result.is_ref = false
correct_type_references(datatype) == [datatype EXCEPT !.is_ref = FALSE]

\* attempt_mutate_type: a Literal of unknown type takes the new type
attempt_mutate_type(val, datatype) ==
    IF val.value = "Literal" /\ val.datatype.raw_type = "Unknown"
    THEN [val EXCEPT !.datatype = correct_type_references(datatype)]
    ELSE val

\* a mutation that overwrites a type that is known
force_mutate_type_known(val, datatype) ==
    IF val.value \in {"Literal", "Symbol"}
    THEN [val EXCEPT !.datatype = correct_type_references(datatype)]
    ELSE val

\* force_mutate_type: a Literal or a Symbol of unknown type takes the new type
force_mutate_type(val, datatype) ==
    IF val.value \in {"Literal", "Symbol"} /\ val.datatype.raw_type = "Unknown"
    THEN [val EXCEPT !.datatype = correct_type_references(datatype)]
    ELSE val

\* the types and the values the functions are applied to
MutationTypes ==
    { DataType(raw_type, num_ptr, is_ref) :
        raw_type \in {"Unknown", "I32", "U8", "Void"},
        num_ptr \in 0..MaxStars,
        is_ref \in BOOLEAN }

MutationValues ==
    { Literal(7, t) : t \in MutationTypes }
    \cup { Symbol("a", t) : t \in MutationTypes }
    \cup { Label("L0") }

MutateIdle ==
    /\ subject = Label("")
    /\ original = Label("")
    /\ new_type = UnknownType
    /\ applied = <<>>

AttemptMutate ==
    /\ Len(applied) < MaxMutations
    /\ subject' = attempt_mutate_type(subject, new_type)
    /\ applied' = Append(applied, "attempt")
    /\ UNCHANGED <<new_type, original>>

ForceMutate ==
    /\ Len(applied) < MaxMutations
    /\ subject' = force_mutate_type(subject, new_type)
    /\ applied' = Append(applied, "force")
    /\ UNCHANGED <<new_type, original>>

(***************************************************************************)
(* compile (compile.rs 12-114): the pipeline over one input file.  The     *)
(* stages it calls (tokenize, parse, from_parse_tree_node, correct_types,  *)
(* optimize_function, CodeGenerator::render, File::create, write!) answer  *)
(* as `env` says; compile is followed statement by statement.              *)
(***************************************************************************)
Event(stage_name, function) == [stage |-> stage_name, function |-> function]

\* the input, the options and the answers of the stages
Environments ==
    { e \in [children : 0..MaxFunctions,
             parse : {"Library", "None", "Err"},
             tree : BOOLEAN,
             level : {"absent", "number", "bad"},
             build_error : 0..MaxFunctions,
             render : {"Ok", "Err"},
             stdout : BOOLEAN,
             create : {"Ok", "Err"},
             write : {"Ok", "Err"}] :
        e.build_error <= e.children }

CompileIdle ==
    /\ env = [children |-> 0, parse |-> "Library", tree |-> FALSE,
              level |-> "absent", build_error |-> 0, render |-> "Ok",
              stdout |-> FALSE, create |-> "Ok", write |-> "Ok"]
    /\ pc = "none"
    /\ child = 0
    /\ functions = <<>>
    /\ events = <<>>
    /\ error = ""
    /\ created = FALSE
    /\ written = FALSE
    /\ printed = <<>>

\* `Err(..)?`: compile returns the error
Fail(diagnostic) ==
    /\ error' = diagnostic
    /\ pc' = "return"

\* let tokens = tokenize(data, filename);
CompileTokenize ==
    /\ pc = "tokenize"
    /\ events' = Append(events, Event("tokenize", 0))
    /\ pc' = "parse"
    /\ UNCHANGED <<env, child, functions, error, created, written, printed>>

\* let node = recorder.wrap_return(parse(tokens))?; if node.is_none() ..
CompileParse ==
    /\ pc = "parse"
    /\ events' = Append(events, Event("parse", 0))
    /\ CASE env.parse = "Err" -> Fail("parse")
         [] env.parse = "None" -> Fail("No Parse Tree Returned")
         [] OTHER -> pc' = "tree" /\ UNCHANGED error
    /\ UNCHANGED <<env, child, functions, created, written, printed>>

\* if options.has_long_flag("tree") || options.has_short_flag("T")
DisplayParseTree ==
    /\ pc = "tree"
    /\ printed' = IF env.tree THEN Append(printed, "Parse Tree:") ELSE printed
    /\ pc' = "level"
    /\ UNCHANGED <<env, child, functions, events, error, created, written>>

\* if let Some(level) = options.map.get("-O"); then `match node.unwrap()`
OptimizationLevel ==
    /\ pc = "level"
    /\ IF env.level = "bad"
       THEN Fail("Bad optimization level") /\ UNCHANGED child
       ELSE /\ pc' = IF env.children = 0 THEN "render" ELSE "build"
            /\ child' = 1
            /\ UNCHANGED error
    /\ UNCHANGED <<env, functions, events, created, written, printed>>

\* an error of from_parse_tree_node that the loop passes over
FromParseTreeNodeUnchecked ==
    /\ pc = "build"
    /\ events' = Append(events, Event("build", child))
    /\ pc' = "correct"
    /\ UNCHANGED <<env, child, functions, error, created, written, printed>>

\* let mut function = irgen::Function::from_parse_tree_node(child)?;
FromParseTreeNode ==
    /\ pc = "build"
    /\ events' = Append(events, Event("build", child))
    /\ IF env.build_error = child
       THEN Fail("build")
       ELSE pc' = "correct" /\ UNCHANGED error
    /\ UNCHANGED <<env, child, functions, created, written, printed>>

\* function = irgen::correct_types(function);
CorrectTypes ==
    /\ pc = "correct"
    /\ events' = Append(events, Event("correct", child))
    /\ pc' = "optimize"
    /\ UNCHANGED <<env, child, functions, error, created, written, printed>>

\* function = irgen::optimize_function(..); functions.push(function);
OptimizeFunction ==
    /\ pc = "optimize"
    /\ events' = Append(events, Event("optimize", child))
    /\ functions' = Append(functions, child)
    /\ IF child = env.children
       THEN pc' = "render" /\ UNCHANGED child
       ELSE pc' = "build" /\ child' = child + 1
    /\ UNCHANGED <<env, error, created, written, printed>>

\* let output = CodeGenerator::new(codegen_mode, functions, ..).render()?;
Render ==
    /\ pc = "render"
    /\ events' = Append(events, Event("render", 0))
    /\ IF env.render = "Err"
       THEN Fail("render")
       ELSE pc' = "output" /\ UNCHANGED error
    /\ UNCHANGED <<env, child, functions, created, written, printed>>

\* if options.has_long_flag("stdout") { println!("Output:\n{}", output); }
DisplayOutput ==
    /\ pc = "output"
    /\ env.stdout
    /\ printed' = Append(printed, "Output:")
    /\ pc' = "return"
    /\ UNCHANGED <<env, child, functions, events, error, created, written>>

\* let file = std::fs::File::create(output_filename); if file.is_err() ..
CreateFile ==
    /\ pc = "output"
    /\ ~env.stdout
    /\ IF env.create = "Err"
       THEN Fail("Could not create output file") /\ UNCHANGED created
       ELSE created' = TRUE /\ pc' = "write" /\ UNCHANGED error
    /\ UNCHANGED <<env, child, functions, events, written, printed>>

\* if let Err(_error) = write!(file.unwrap(), "{}", output) ..; Ok(())
WriteFile ==
    /\ pc = "write"
    /\ IF env.write = "Err"
       THEN Fail("Could not write to output file") /\ UNCHANGED written
       ELSE written' = TRUE /\ pc' = "return" /\ UNCHANGED error
    /\ UNCHANGED <<env, child, functions, events, created, printed>>

(***************************************************************************)
(* Specifications.                                                         *)
(***************************************************************************)
IdentIdle ==
    /\ lexeme = <<>>
    /\ identResult = NoResult

EmitIdle ==
    /\ func = [return_type |-> UnknownType, name |-> "[UNKNOWN]",
               arguments |-> <<>>, symbols |-> <<>>,
               instructions |-> <<>>, labels |-> EmptyMap]
    /\ ctx = NewContext
    /\ stage = "none"
    /\ cursor = 0

BuildIdle ==
    /\ todo = <<>>
    /\ built = "none"
    /\ lowered = 0

InitParser ==
    ParserIdle /\ IdentIdle /\ FunctionNew /\ BuildIdle /\ EmitIdle
    /\ CompileIdle /\ MutateIdle

NextParser ==
    \/ \E t \in Vocabulary : Tokenize(t) /\ UNCHANGED <<identVars, funcVars, buildVars, emitVars, compileVars, mutateVars>>
    \/ Parse /\ UNCHANGED <<identVars, funcVars, buildVars, emitVars, compileVars, mutateVars>>

SpecParser == InitParser /\ [][NextParser]_vars

Init ==
    ParserIdle /\ IdentIdle /\ FunctionNew /\ BuildIdle /\ EmitIdle
    /\ CompileIdle /\ MutateIdle

\* the calls are cut off at MaxInstructions instructions and MaxLabels labels
Next ==
    \/ \E inst \in SomeInstructions :
          /\ next_index < MaxInstructions
          /\ add_instruction(inst)
          /\ UNCHANGED <<parserVars, identVars, buildVars, emitVars, compileVars, mutateVars>>
    \/ /\ next_label + 2 <= MaxLabels
       /\ enter_loop
       /\ UNCHANGED <<parserVars, identVars, buildVars, emitVars, compileVars, mutateVars>>
    \/ exit_loop /\ UNCHANGED <<parserVars, identVars, buildVars, emitVars, compileVars, mutateVars>>
    \/ get_continue /\ UNCHANGED <<parserVars, identVars, buildVars, emitVars, compileVars, mutateVars>>
    \/ get_break /\ UNCHANGED <<parserVars, identVars, buildVars, emitVars, compileVars, mutateVars>>

Spec == Init /\ [][Next]_vars

InitBuild ==
    /\ ParserIdle /\ IdentIdle /\ from_parse_tree_node /\ EmitIdle
    /\ CompileIdle /\ MutateIdle

NextBuild ==
    \/ RenderEmpty /\ UNCHANGED <<parserVars, identVars, emitVars, compileVars, mutateVars>>
    \/ RenderExpression /\ UNCHANGED <<parserVars, identVars, emitVars, compileVars, mutateVars>>
    \/ RenderReturn /\ UNCHANGED <<parserVars, identVars, emitVars, compileVars, mutateVars>>
    \/ RenderBreak /\ UNCHANGED <<parserVars, identVars, emitVars, compileVars, mutateVars>>
    \/ RenderContinue /\ UNCHANGED <<parserVars, identVars, emitVars, compileVars, mutateVars>>
    \/ RenderStatements /\ UNCHANGED <<parserVars, identVars, emitVars, compileVars, mutateVars>>
    \/ RenderIf /\ UNCHANGED <<parserVars, identVars, emitVars, compileVars, mutateVars>>
    \/ RenderIfLabels /\ UNCHANGED <<parserVars, identVars, emitVars, compileVars, mutateVars>>
    \/ RenderWhile /\ UNCHANGED <<parserVars, identVars, emitVars, compileVars, mutateVars>>
    \/ RenderWhileBody /\ UNCHANGED <<parserVars, identVars, emitVars, compileVars, mutateVars>>
    \/ RenderDoWhile /\ UNCHANGED <<parserVars, identVars, emitVars, compileVars, mutateVars>>
    \/ RenderLoop /\ UNCHANGED <<parserVars, identVars, emitVars, compileVars, mutateVars>>
    \/ StepAdd /\ UNCHANGED <<parserVars, identVars, emitVars, compileVars, mutateVars>>
    \/ StepExpression /\ UNCHANGED <<parserVars, identVars, emitVars, compileVars, mutateVars>>
    \/ StepPlace /\ UNCHANGED <<parserVars, identVars, emitVars, compileVars, mutateVars>>
    \/ StepExitLoop /\ UNCHANGED <<parserVars, identVars, emitVars, compileVars, mutateVars>>

SpecBuild == InitBuild /\ [][NextBuild]_vars

\* FunctionGenerationContext::new(func), then render_function
InitEmit ==
    /\ ParserIdle /\ IdentIdle /\ FunctionNew /\ BuildIdle
    /\ func \in EmitFunctions
    /\ ctx = NewContext
    /\ stage = "start"
    /\ cursor = 0
    /\ CompileIdle /\ MutateIdle

NextEmit ==
    \/ RenderHeader /\ UNCHANGED <<parserVars, identVars, funcVars, buildVars, compileVars, mutateVars>>
    \/ AllocateSymbol /\ UNCHANGED <<parserVars, identVars, funcVars, buildVars, compileVars, mutateVars>>
    \/ RenderInstruction /\ UNCHANGED <<parserVars, identVars, funcVars, buildVars, compileVars, mutateVars>>
    \/ RenderEnd /\ UNCHANGED <<parserVars, identVars, funcVars, buildVars, compileVars, mutateVars>>

SpecEmit == InitEmit /\ [][NextEmit]_vars

InitCompile ==
    /\ ParserIdle /\ IdentIdle /\ FunctionNew /\ BuildIdle /\ EmitIdle
    /\ MutateIdle
    /\ env \in Environments
    /\ pc = "tokenize"
    /\ child = 0
    /\ functions = <<>>
    /\ events = <<>>
    /\ error = ""
    /\ created = FALSE
    /\ written = FALSE
    /\ printed = <<>>

NextCompile ==
    \/ CompileTokenize /\ UNCHANGED <<parserVars, identVars, funcVars, buildVars, emitVars, mutateVars>>
    \/ CompileParse /\ UNCHANGED <<parserVars, identVars, funcVars, buildVars, emitVars, mutateVars>>
    \/ DisplayParseTree /\ UNCHANGED <<parserVars, identVars, funcVars, buildVars, emitVars, mutateVars>>
    \/ OptimizationLevel /\ UNCHANGED <<parserVars, identVars, funcVars, buildVars, emitVars, mutateVars>>
    \/ FromParseTreeNode /\ UNCHANGED <<parserVars, identVars, funcVars, buildVars, emitVars, mutateVars>>
    \/ CorrectTypes /\ UNCHANGED <<parserVars, identVars, funcVars, buildVars, emitVars, mutateVars>>
    \/ OptimizeFunction /\ UNCHANGED <<parserVars, identVars, funcVars, buildVars, emitVars, mutateVars>>
    \/ Render /\ UNCHANGED <<parserVars, identVars, funcVars, buildVars, emitVars, mutateVars>>
    \/ DisplayOutput /\ UNCHANGED <<parserVars, identVars, funcVars, buildVars, emitVars, mutateVars>>
    \/ CreateFile /\ UNCHANGED <<parserVars, identVars, funcVars, buildVars, emitVars, mutateVars>>
    \/ WriteFile /\ UNCHANGED <<parserVars, identVars, funcVars, buildVars, emitVars, mutateVars>>

SpecCompile == InitCompile /\ [][NextCompile]_vars

InitMutate ==
    /\ ParserIdle /\ IdentIdle /\ FunctionNew /\ BuildIdle /\ EmitIdle
    /\ CompileIdle
    /\ subject \in MutationValues
    /\ original = subject
    /\ new_type \in MutationTypes
    /\ applied = <<>>

NextMutate ==
    \/ AttemptMutate /\ UNCHANGED <<parserVars, identVars, funcVars, buildVars, emitVars, compileVars>>
    \/ ForceMutate /\ UNCHANGED <<parserVars, identVars, funcVars, buildVars, emitVars, compileVars>>

SpecMutate == InitMutate /\ [][NextMutate]_vars

InitExpr ==
    /\ tokens \in ExprInputs
    /\ result = NoResult
    /\ called = ""
    /\ IdentIdle
    /\ FunctionNew
    /\ BuildIdle
    /\ EmitIdle
    /\ CompileIdle /\ MutateIdle

NextExpr ==
    \/ ParseExpression /\ UNCHANGED <<identVars, funcVars, buildVars, emitVars, compileVars, mutateVars>>
    \/ ParseStatement /\ UNCHANGED <<identVars, funcVars, buildVars, emitVars, compileVars, mutateVars>>

SpecExpr == InitExpr /\ [][NextExpr]_vars

InitIdent ==
    ParserIdle /\ IdentIdle /\ FunctionNew /\ BuildIdle /\ EmitIdle
    /\ CompileIdle /\ MutateIdle

NextIdent ==
    \/ \E c \in LexAlphabet : AppendChar(c) /\ UNCHANGED <<parserVars, funcVars, buildVars, emitVars, compileVars, mutateVars>>
    \/ ParseIdentifier /\ UNCHANGED <<parserVars, funcVars, buildVars, emitVars, compileVars, mutateVars>>

SpecIdent == InitIdent /\ [][NextIdent]_vars

(***************************************************************************)
(* The precedence table of the language, by operator token: the level of   *)
(* a binary operator (0 when the token is none) and the expression kind    *)
(* it builds.                                                              *)
(***************************************************************************)
TableLevel(tok) ==
    CASE tok \in { <<"*">>, <<"/">>, <<"%">> } -> 4
      [] tok \in { <<"+">>, <<"-">> } -> 5
      [] tok \in { <<"<","<">>, <<">",">">> } -> 6
      [] tok \in { <<"<">>, <<"<","=">>, <<">">>, <<">","=">> } -> 7
      [] tok \in { <<"=","=">>, <<"!","=">> } -> 8
      [] tok = <<"&">> -> 9
      [] tok = <<"^">> -> 10
      [] tok = <<"|">> -> 11
      [] tok = <<"&","&">> -> 12
      [] tok = <<"|","|">> -> 13
      [] tok \in { <<"=">>, <<"+","=">>, <<"-","=">>, <<"*","=">>,
                   <<"/","=">>, <<"%","=">>, <<"<","<","=">>,
                   <<">",">","=">>, <<"&","=">>, <<"^","=">>,
                   <<"|","=">> } -> 15
      [] tok = <<",">> -> 17
      [] OTHER -> 0

TableKind(tok) ==
    CASE tok = <<"*">> -> "Multiply"
      [] tok = <<"/">> -> "Divide"
      [] tok = <<"%">> -> "Modulus"
      [] tok = <<"+">> -> "Add"
      [] tok = <<"-">> -> "Subtract"
      [] tok = <<"<","<">> -> "ShiftLeft"
      [] tok = <<">",">">> -> "ShiftRight"
      [] tok = <<"<">> -> "LessThan"
      [] tok = <<"<","=">> -> "LessThanOrEqual"
      [] tok = <<">">> -> "GreaterThan"
      [] tok = <<">","=">> -> "GreaterThanOrEqual"
      [] tok = <<"=","=">> -> "Equal"
      [] tok = <<"!","=">> -> "NotEqual"
      [] tok = <<"&">> -> "BitwiseAnd"
      [] tok = <<"^">> -> "BitwiseXor"
      [] tok = <<"|">> -> "BitwiseOr"
      [] tok = <<"&","&">> -> "LogicalAnd"
      [] tok = <<"|","|">> -> "LogicalOr"
      [] tok = <<",">> -> "Comma"
      [] OTHER -> "None"

\* the tokens are `a op1 b op2 c`
ThreeOperands ==
    /\ Len(tokens) = 5
    /\ tokens[1] = <<"a">>
    /\ tokens[3] = <<"b">>
    /\ tokens[5] = <<"c">>

Id(tok) == Leaf("Identifier", tok)

\* op2(op1(a, b), c)
LeftTree ==
    Expression(TableKind(tokens[4]),
               << Expression(TableKind(tokens[2]),
                             <<Id(tokens[1]), Id(tokens[3])>>),
                  Id(tokens[5]) >>)

\* op1(a, op2(b, c))
RightTree ==
    Expression(TableKind(tokens[2]),
               << Id(tokens[1]),
                  Expression(TableKind(tokens[4]),
                             <<Id(tokens[3]), Id(tokens[5])>>) >>)

(***************************************************************************)
(* C1: two binary operators of the same precedence level (levels 4..13     *)
(* and the comma) associate to the left: `a op1 b op2 c` parses to         *)
(* op2(op1(a, b), c).  The parser builds op1(a, op2(b, c)) instead.        *)
(***************************************************************************)
C1_LeftAssociative ==
    ( /\ called = "parse_expression"
      /\ ThreeOperands
      /\ TableLevel(tokens[2]) \in (4..13) \cup {17}
      /\ TableLevel(tokens[2]) = TableLevel(tokens[4]) )
    => (result.kind = "ok" /\ result.node = LeftTree)

(***************************************************************************)
(* C2: between two binary operators of different levels in 4..13 the one   *)
(* of the lower level binds tighter, whichever comes first: both           *)
(* `a opL b opT c` and `a opT b opL c` parse with the opT expression as a  *)
(* child of the opL node.                                                  *)
(***************************************************************************)
C2_Precedence ==
    ( /\ called = "parse_expression"
      /\ ThreeOperands
      /\ TableLevel(tokens[2]) \in 4..13
      /\ TableLevel(tokens[4]) \in 4..13
      /\ TableLevel(tokens[2]) # TableLevel(tokens[4]) )
    => /\ result.kind = "ok"
       /\ result.index = 5
       /\ result.node = IF TableLevel(tokens[2]) < TableLevel(tokens[4])
                        THEN LeftTree
                        ELSE RightTree

C2_Witness ==
    /\ called = "parse_expression"
    /\ ThreeOperands
    /\ TableLevel(tokens[2]) \in 4..13
    /\ TableLevel(tokens[4]) \in 4..13
    /\ TableLevel(tokens[2]) > TableLevel(tokens[4])
    /\ result.kind = "ok"
    /\ result.node = RightTree

(***************************************************************************)
(* C3: casts chain to the left: the statement `a as T1 as T2 ;` parses     *)
(* and yields Cast(Cast(a, T1), T2).  The parser takes one cast per        *)
(* expression and rejects the second `as`.                                 *)
(***************************************************************************)
C3_CastChain ==
    ( /\ called = "parse_statement"
      /\ Len(tokens) = 6
      /\ tokens[1] = <<"a">>
      /\ tokens[2] = <<"a","s">>
      /\ tokens[3] \in CastTypes
      /\ tokens[4] = <<"a","s">>
      /\ tokens[5] \in CastTypes
      /\ tokens[6] = <<";">> )
    => /\ result.kind = "ok"
       /\ result.node =
            Branch("Statement",
              << Expression("Cast",
                   << Expression("Cast",
                        << Id(tokens[1]),
                           Branch("Type", <<Leaf("RawType", tokens[3])>>) >>),
                      Branch("Type", <<Leaf("RawType", tokens[5])>>) >>) >>)

(***************************************************************************)
(* C4: when parse returns a Library, the cursor stands behind the last     *)
(* token: no token of the input is left unconsumed.                        *)
(***************************************************************************)
C4_NoResidualTokens ==
    (called = "parse" /\ result.kind = "ok") => result.index = Len(tokens)

(***************************************************************************)
(* C5: parse ends with a Library or with one diagnostic of the two kinds,  *)
(* never with a panic.                                                     *)
(***************************************************************************)
C5_LibraryOrDiagnostic ==
    called = "parse" =>
        \/ result.kind = "ok"
        \/ /\ result.kind = "err"
           /\ result.diag \in {"expected_got", "unexpected_eof"}

(***************************************************************************)
(* C6: parse_identifier accepts a token exactly when the whole token       *)
(* matches [A-Za-z_][A-Za-z0-9_]* and is no type name and no keyword, and  *)
(* rejects every other token with `expected identifier`.                   *)
(***************************************************************************)
IsIdentifier(data) ==
    /\ Len(data) >= 1
    /\ data[1] \in LowerCase \cup UpperCase \cup {"_"}
    /\ \A i \in 2..Len(data) :
          data[i] \in LowerCase \cup UpperCase \cup Digits \cup {"_"}
    /\ data \notin TYPES \cup KEYWORDS

C6_IdentifierRule ==
    identResult.kind # "none" =>
        IF IsIdentifier(lexeme)
        THEN /\ identResult.kind = "ok"
             /\ identResult.node = Id(lexeme)
        ELSE /\ identResult.kind = "err"
             /\ identResult.diag = "expected_got"
             /\ identResult.expected = What("identifier")

(***************************************************************************)
(* C7: when an assignment-level operator reduces, every Dereference node   *)
(* of its left operand has become DereferenceLeft, the left operand is     *)
(* otherwise the tree the lower levels parsed (same kinds, tokens and      *)
(* order of children), the right operand is the tree level 15 parsed, and  *)
(* converting the left operand again changes nothing.                      *)
(***************************************************************************)
RECURSIVE HasDereference(_)
HasDereference(node) ==
    \/ node.kind = "Expression" /\ node.type = "Dereference"
    \/ \E i \in 1..Len(node.children) : HasDereference(node.children[i])

RECURSIVE SameButDereference(_, _)
SameButDereference(before, after) ==
    /\ after.kind = before.kind
    /\ after.token = before.token
    /\ after.type = IF before.type = "Dereference" THEN "DereferenceLeft"
                    ELSE before.type
    /\ Len(after.children) = Len(before.children)
    /\ \A i \in 1..Len(before.children) :
          SameButDereference(before.children[i], after.children[i])

\* the level 15 node of a tree built by level 17: below a comma and a cast
Level15Node(node) ==
    LET c == IF node.kind = "Expression" /\ node.type = "Comma"
             THEN node.children[1] ELSE node
    IN  IF c.kind = "Expression" /\ c.type = "Cast"
        THEN c.children[1] ELSE c

\* the tokens start with a complete operand of level 14 or lower that is
\* followed by an assignment-family operator
LeftReduced ==
    LET prev == recursive_expression(tokens, 0, 14)
    IN  /\ prev.kind = "ok"
        /\ prev.index < Len(tokens)
        /\ TableLevel(tokens[prev.index + 1]) = 15

C7_ConvertToLeft ==
    (called = "parse_expression" /\ LeftReduced) =>
        LET prev == recursive_expression(tokens, 0, 14)
            post == recursive_expression(tokens, prev.index + 1, 15)
            n == Level15Node(result.node)
        IN  /\ result.kind = "ok"
            /\ n.kind = "Expression"
            /\ Len(n.children) = 2
            /\ ~HasDereference(n.children[1])
            /\ SameButDereference(prev.node, n.children[1])
            /\ n.children[2] = post.node
            /\ convert_to_left(n.children[1]) = n.children[1]

C7_Witness ==
    /\ called = "parse_expression"
    /\ LeftReduced
    /\ result.kind = "ok"
    /\ LET prev == recursive_expression(tokens, 0, 14)
           post == recursive_expression(tokens, prev.index + 1, 15)
       IN  /\ prev.node.type # "Dereference"
           /\ HasDereference(prev.node)
           /\ HasDereference(post.node)
           /\ HasDereference(Level15Node(result.node).children[2])

(***************************************************************************)
(* C8: continue_stack and break_stack have the same length in every        *)
(* reachable state; enter_loop makes both one longer, exit_loop makes      *)
(* both one shorter or leaves both empty.                                  *)
(***************************************************************************)
C8_ParallelStacks ==
    /\ [](Len(continue_stack) = Len(break_stack))
    /\ [][ /\ ret'.op = "enter_loop" =>
                /\ Len(continue_stack') = Len(continue_stack) + 1
                /\ Len(break_stack') = Len(break_stack) + 1
           /\ ret'.op = "exit_loop" =>
                IF Len(continue_stack) > 0 \/ Len(break_stack) > 0
                THEN /\ Len(continue_stack') = Len(continue_stack) - 1
                     /\ Len(break_stack') = Len(break_stack) - 1
                ELSE /\ continue_stack' = <<>>
                     /\ break_stack' = <<>> ]_vars

C8_Witness ==
    /\ ret.op = "exit_loop"
    /\ next_label = 4
    /\ Len(continue_stack) = 1
    /\ Len(break_stack) = 1

(***************************************************************************)
(* C9: get_break returns the exit label and get_continue the entry label   *)
(* of the innermost open loop, as enter_loop returned them, and None when  *)
(* no loop is open; neither changes the stacks or the counters.            *)
(***************************************************************************)
C9_InnermostLoop ==
    /\ [](ret.op = "get_break" =>
            /\ ~ret.panic
            /\ ret.val = IF Len(break_stack) = 0 THEN <<>>
                         ELSE <<break_stack[Len(break_stack)]>>)
    /\ [](ret.op = "get_continue" =>
            /\ ~ret.panic
            /\ ret.val = IF Len(continue_stack) = 0 THEN <<>>
                         ELSE <<continue_stack[Len(continue_stack)]>>)
    /\ [][ /\ ret'.op \in {"get_break", "get_continue"} =>
                UNCHANGED <<continue_stack, break_stack, next_label,
                            next_register, next_index>>
           /\ ret'.op = "enter_loop" =>
                /\ continue_stack' = Append(continue_stack, ret'.val[1])
                /\ break_stack' = Append(break_stack, ret'.val[2])
           /\ (ret'.op = "exit_loop" /\ Len(continue_stack) > 0) =>
                /\ Append(continue_stack',
                          continue_stack[Len(continue_stack)])
                     = continue_stack
                /\ Append(break_stack', break_stack[Len(break_stack)])
                     = break_stack ]_vars

C9_Witness ==
    /\ ret.op = "get_break"
    /\ Len(break_stack) = 2
    /\ ret.val = <<break_stack[2]>>
    /\ break_stack[2] # break_stack[1]

(***************************************************************************)
(* C10: the instruction map is dense: its keys are exactly                 *)
(* 0 .. next_index - 1, next_index is the number of instructions, and no   *)
(* step removes or overwrites an instruction.                              *)
(***************************************************************************)
C10_DenseInstructions ==
    /\ [](/\ DOMAIN instructions = 0..(next_index - 1)
          /\ Cardinality(DOMAIN instructions) = next_index)
    /\ [][ \A k \in DOMAIN instructions :
              /\ k \in DOMAIN instructions'
              /\ instructions'[k] = instructions[k] ]_vars

C10_Witness ==
    /\ ret.op = "add_instruction"
    /\ next_index >= 2
    /\ DOMAIN instructions = 0..(next_index - 1)

(***************************************************************************)
(* C11: every Function that from_parse_tree_node returns ends with the     *)
(* label `exit` bound to a terminal Nop: `exit` is bound at index          *)
(* next_index - 1, the instruction there is a Nop, no instruction has a    *)
(* higher index, and `exit` is bound nowhere else.                         *)
(***************************************************************************)
BoundAt(label, k) ==
    /\ k \in DOMAIN labels
    /\ \E j \in 1..Len(labels[k]) : labels[k][j] = label

C11_ExitLabel ==
    built = "ok" =>
        /\ next_index >= 1
        /\ BoundAt(ExitLabel, next_index - 1)
        /\ (next_index - 1) \in DOMAIN instructions
        /\ instructions[next_index - 1].opcode = "Nop"
        /\ \A k \in DOMAIN instructions : k <= next_index - 1
        /\ \A k \in DOMAIN labels :
              \A j \in 1..Len(labels[k]) :
                 labels[k][j] = ExitLabel =>
                    /\ k = next_index - 1
                    /\ \A i \in 1..Len(labels[k]) :
                          labels[k][i] = ExitLabel => i = j

C11_Witness ==
    /\ built = "ok"
    /\ lowered >= 2
    /\ next_index >= 4
    /\ BoundAt(ExitLabel, next_index - 1)
    /\ Len(labels[next_index - 1]) >= 2
    /\ \E i \in DOMAIN instructions : instructions[i] = Jmp(ExitLabel)

(***************************************************************************)
(* C12: every branch target resolves: in a Function that                   *)
(* from_parse_tree_node returns, every label named by an instruction is    *)
(* bound in `labels` at the index of an instruction of the function.       *)
(***************************************************************************)
Targets(inst) ==
    { inst.arguments[j].name :
        j \in { i \in 1..Len(inst.arguments) :
                   inst.arguments[i].value = "Label" } }

C12_TargetsResolve ==
    built = "ok" =>
        \A i \in DOMAIN instructions :
           \A label \in Targets(instructions[i]) :
              \E k \in 0..(next_index - 1) : BoundAt(label, k)

C12_Witness ==
    /\ built = "ok"
    /\ \E i \in DOMAIN instructions : instructions[i] = Jmp(ExitLabel)
    /\ \E i \in DOMAIN instructions :
          /\ instructions[i].opcode = "Beq"
          /\ Targets(instructions[i]) # {}
    /\ \E i \in DOMAIN instructions, k \in DOMAIN labels :
          /\ instructions[i].opcode = "Jmp"
          /\ instructions[i] # Jmp(ExitLabel)
          /\ Len(labels[k]) >= 2
          /\ BoundAt(instructions[i].arguments[1].name, k)
          /\ k > i

(***************************************************************************)
(* Reading the emitted text: the pieces a step of render_function adds,    *)
(* and the commands among them.                                            *)
(***************************************************************************)
HasPrefix(text, prefix) ==
    /\ Len(text) >= Len(prefix)
    /\ SubSeq(text, 1, Len(prefix)) = prefix

Temp(n) == "%V" \o to_string(n)

\* `    %Vn = <op> ...`
IsCommand(text, op, temps) ==
    \E n \in 0..temps : HasPrefix(text, "    " \o Temp(n) \o " = " \o op \o " ")

CommandsOf(pieces, ops, temps) ==
    { k \in 1..Len(pieces) : \E op \in ops : IsCommand(pieces[k], op, temps) }

\* the instruction render_function is at, and whether this step renders it
Inst == func.instructions[cursor + 1]

Rendering(opcodes) ==
    /\ stage = "body"
    /\ cursor < Len(func.instructions)
    /\ Inst.opcode \in opcodes
    /\ stage' = "body"
    /\ cursor' = cursor + 1

Emitted == SubSeq(ctx'.result, Len(ctx.result) + 1, Len(ctx'.result))

\* signed: I8, I16, I32 or I64 with pointer depth 0
Signed(datatype) ==
    datatype.raw_type \in {"I8", "I16", "I32", "I64"} /\ datatype.num_ptr = 0

\* the step emits exactly one of the commands `ops`, and it is `op`
EmitsOneOf(ops, op) ==
    /\ Cardinality(CommandsOf(Emitted, ops, ctx'.next_temp)) = 1
    /\ CommandsOf(Emitted, {op}, ctx'.next_temp) # {}

(***************************************************************************)
(* C13: for every Shr the emitter selects `ashr` when the type of          *)
(* operand 1 is signed and `lshr` otherwise.                               *)
(***************************************************************************)
C13_ShiftOpcode ==
    [][Rendering({"Shr"}) =>
          EmitsOneOf({"ashr", "lshr"},
                     IF Signed(Inst.arguments[2].datatype)
                     THEN "ashr" ELSE "lshr")]_vars

(***************************************************************************)
(* C14: for every Mod the emitter selects `srem` when the type of          *)
(* operand 1 is signed and `urem` otherwise.                               *)
(***************************************************************************)
C14_RemainderOpcode ==
    [][Rendering({"Mod"}) =>
          EmitsOneOf({"srem", "urem"},
                     IF Signed(Inst.arguments[2].datatype)
                     THEN "srem" ELSE "urem")]_vars

C14_Witness ==
    /\ stage = "done"
    /\ func.instructions[1].opcode = "Mod"
    /\ func.instructions[1].arguments[2].datatype = Scalar("U32")
    /\ func.instructions[1].arguments[3].datatype = Scalar("I8")
    /\ CommandsOf(ctx.result, {"urem"}, ctx.next_temp) # {}

(***************************************************************************)
(* C15: for every Div the emitter emits `sdiv` when operand 1 is signed    *)
(* and `udiv` otherwise, never an opcode that LLVM does not have.          *)
(***************************************************************************)
C15_DivisionOpcode ==
    [][Rendering({"Div"}) =>
          /\ EmitsOneOf({"sdiv", "udiv"},
                        IF Signed(Inst.arguments[2].datatype)
                        THEN "sdiv" ELSE "udiv")
          /\ CommandsOf(Emitted, {"div"}, ctx'.next_temp) = {}]_vars

(***************************************************************************)
(* C16: a widening integer Cast extends with `sext` when the source type   *)
(* is signed and with `zext` otherwise.                                    *)
(***************************************************************************)
ByteSize(datatype) ==
    IF datatype.num_ptr > 0 THEN 8
    ELSE CASE datatype.raw_type \in {"I8", "U8"} -> 1
           [] datatype.raw_type \in {"I16", "U16"} -> 2
           [] datatype.raw_type \in {"I32", "U32"} -> 4
           [] datatype.raw_type \in {"I64", "U64"} -> 8
           [] OTHER -> 0

Widening(inst) ==
    /\ inst.arguments[1].datatype.num_ptr = 0
    /\ inst.arguments[2].datatype.num_ptr = 0
    /\ ByteSize(inst.arguments[1].datatype)
         > ByteSize(inst.arguments[2].datatype)

C16_ExtensionOpcode ==
    [][(Rendering({"Cast"}) /\ Widening(Inst)) =>
          EmitsOneOf({"sext", "zext"},
                     IF Signed(Inst.arguments[2].datatype)
                     THEN "sext" ELSE "zext")]_vars

(***************************************************************************)
(* C17: a Cast emits no conversion when source and destination print as    *)
(* the same LLVM type (identical pointer types included) and exactly one   *)
(* otherwise; the stored value has the destination's LLVM type.            *)
(***************************************************************************)
Conversions == {"trunc", "sext", "zext", "ptrtoint", "inttoptr", "bitcast"}

\* how a type prints as an LLVM type
Asterisks(n) == IF n = 0 THEN "" ELSE IF n = 1 THEN "*" ELSE "**"

Printed(datatype) ==
    (CASE datatype.raw_type \in {"I8", "U8"} -> "i8"
       [] datatype.raw_type \in {"I16", "U16"} -> "i16"
       [] datatype.raw_type \in {"I32", "U32"} -> "i32"
       [] datatype.raw_type \in {"I64", "U64"} -> "i64"
       [] OTHER -> "void") \o Asterisks(datatype.num_ptr)

Stores(pieces, datatype) ==
    { k \in 1..Len(pieces) :
        HasPrefix(pieces[k], "    store " \o Printed(datatype) \o " %V") }

AllStores(pieces) ==
    { k \in 1..Len(pieces) : HasPrefix(pieces[k], "    store ") }

C17_CastConversions ==
    [][Rendering({"Cast"}) =>
          LET dest == Inst.arguments[1].datatype
              src == Inst.arguments[2].datatype
          IN /\ Cardinality(CommandsOf(Emitted, Conversions, ctx'.next_temp))
                  = IF Printed(src) = Printed(dest) THEN 0 ELSE 1
             /\ AllStores(Emitted) = Stores(Emitted, dest)
             /\ Cardinality(AllStores(Emitted)) = 1]_vars

(***************************************************************************)
(* C18: a compare emits, in this order, one `icmp` on operands 1 and 2,    *)
(* one `zext i1` to the destination type and one store; the predicate is   *)
(* eq/ne for Ceq/Cne and has the signed form exactly when operand 1 is     *)
(* signed.                                                                 *)
(***************************************************************************)
Predicate(opcode, signed) ==
    CASE opcode = "Ceq" -> "eq"
      [] opcode = "Cne" -> "ne"
      [] opcode = "Clt" -> IF signed THEN "slt" ELSE "ult"
      [] opcode = "Cle" -> IF signed THEN "sle" ELSE "ule"
      [] opcode = "Cgt" -> IF signed THEN "sgt" ELSE "ugt"
      [] opcode = "Cge" -> IF signed THEN "sge" ELSE "uge"

\* the temporaries a step takes
Fresh(c, d) == { Temp(n) : n \in c.next_temp..(d.next_temp - 1) }

\* the texts an operand may have in a command of the step: a temporary loaded
\* in this step from a slot of the operand's type, or the literal itself
OperandTexts(pieces, temps, value) ==
    IF value.value = "Literal"
    THEN { to_string(value.literal) }
    ELSE { t \in temps :
             \E k \in 1..Len(pieces) :
                HasPrefix(pieces[k],
                          "    " \o t \o " = load "
                              \o Printed(value.datatype) \o ", "
                              \o Printed(value.datatype) \o "* ") }

CompareShape(pieces, temps, all, inst) ==
    LET dest == inst.arguments[1].datatype
        first == inst.arguments[2].datatype
        icmps == CommandsOf(pieces, {"icmp"}, all)
        zexts == CommandsOf(pieces, {"zext"}, all)
        stores == AllStores(pieces)
    IN /\ Cardinality(icmps) = 1
       /\ Cardinality(zexts) = 1
       /\ Cardinality(stores) = 1
       /\ \E i \in icmps, z \in zexts, s \in stores :
             /\ i < z
             /\ z < s
             /\ \E t \in temps, u \in temps :
                   /\ \E x \in OperandTexts(pieces, temps, inst.arguments[2]),
                         y \in OperandTexts(pieces, temps, inst.arguments[3]) :
                         pieces[i] =
                             "    " \o t \o " = icmp "
                                 \o Predicate(inst.opcode, Signed(first))
                                 \o " " \o Printed(first) \o " "
                                 \o x \o ", " \o y \o "\n"
                   /\ pieces[z] = "    " \o u \o " = zext i1 " \o t
                                     \o " to " \o Printed(dest) \o "\n"
                   /\ HasPrefix(pieces[s],
                                "    store " \o Printed(dest) \o " "
                                    \o u \o ", " \o Printed(dest) \o "* ")

C18_CompareSequence ==
    [][Rendering(CompareOpCodes) =>
          CompareShape(Emitted, Fresh(ctx, ctx'), ctx'.next_temp, Inst)]_vars

C18_Witness ==
    /\ stage = "done"
    /\ func.instructions[1].opcode = "Clt"
    /\ func.instructions[1].arguments[2].datatype = Scalar("U32")
    /\ func.instructions[1].arguments[3].datatype = Scalar("I8")
    /\ CommandsOf(ctx.result, {"icmp ult"}, ctx.next_temp) # {}
    /\ CommandsOf(ctx.result, {"zext i1"}, ctx.next_temp) # {}

(***************************************************************************)
(* C19: the argument list of each emitted `call` is exactly the values     *)
(* pushed since the previous Call (or the function start), in push order,  *)
(* comma-separated with no trailing separator, and the argument buffer is  *)
(* empty after every Call.                                                 *)
(***************************************************************************)
RECURSIVE PushedBefore(_, _)
PushedBefore(insts, i) ==
    IF i = 0 \/ insts[i].opcode = "Call" THEN <<>>
    ELSE IF insts[i].opcode = "Push"
         THEN Append(PushedBefore(insts, i - 1), insts[i].arguments[1])
         ELSE PushedBefore(insts, i - 1)

\* how a pushed value may read in an argument list
ArgumentTexts(value, temps) ==
    IF value.value = "Literal"
    THEN { Printed(value.datatype) \o " " \o to_string(value.literal) }
    ELSE { Printed(value.datatype) \o " " \o Temp(n) : n \in 0..temps }

RECURSIVE ListsValues(_, _, _, _)
ListsValues(text, values, k, temps) ==
    IF k > Len(values) THEN text = ""
    ELSE \E item \in ArgumentTexts(values[k], temps) :
            IF k = Len(values) THEN text = item
            ELSE /\ HasPrefix(text, item \o ", ")
                 /\ ListsValues(SubSeq(text, Len(item) + 3, Len(text)),
                                values, k + 1, temps)

HasSuffix(text, suffix) ==
    /\ Len(text) >= Len(suffix)
    /\ SubSeq(text, Len(text) - Len(suffix) + 1, Len(text)) = suffix

\* `    %Vn = call T @name(<the values>)`
CallOf(text, inst, values, temps) ==
    \E n \in 0..temps :
       LET head == "    " \o Temp(n) \o " = call "
                       \o Printed(inst.arguments[1].datatype)
                       \o " @" \o inst.arguments[2].name \o "("
       IN /\ HasPrefix(text, head)
          /\ HasSuffix(text, ")\n")
          /\ Len(text) >= Len(head) + 2
          /\ ListsValues(SubSeq(text, Len(head) + 1, Len(text) - 2),
                         values, 1, temps)

C19_CallArguments ==
    [][Rendering({"Call"}) =>
          LET calls == CommandsOf(Emitted, {"call"}, ctx'.next_temp)
          IN /\ Cardinality(calls) = 1
             /\ \A k \in calls :
                   CallOf(Emitted[k], Inst,
                          PushedBefore(func.instructions, cursor),
                          ctx'.next_temp)
             /\ ctx'.current_arguments = ""]_vars

C19_Witness ==
    /\ stage = "done"
    /\ Len(func.instructions) >= 4
    /\ func.instructions[1].opcode = "Push"
    /\ func.instructions[1].arguments[1].value = "Symbol"
    /\ func.instructions[2].opcode = "Call"
    /\ func.instructions[3].opcode = "Push"
    /\ func.instructions[3].arguments[1].value = "Literal"
    /\ func.instructions[4].opcode = "Call"
    /\ \E j \in 1..Len(ctx.result), k \in 1..Len(ctx.result) :
          /\ j < k
          /\ HasSuffix(ctx.result[j], " = call i32 @g(i32 %V2)\n")
          /\ HasSuffix(ctx.result[k], " = call i32 @g(i64 7)\n")
    /\ ctx.current_arguments = ""

(***************************************************************************)
(* C20: for every parameter, of every type, pointer types such as void*    *)
(* included, the prologue emits the alloca of the parameter's slot and     *)
(* immediately after it the store of `%<name>` into that slot, before the  *)
(* code of the first body instruction.                                     *)
(***************************************************************************)
\* the pieces before the first instruction's: each instruction's code starts
\* with its comment, `\n; ...`
Prologue(pieces) ==
    LET body == { k \in 1..Len(pieces) : HasPrefix(pieces[k], "\n; ") }
    IN IF body = {} THEN pieces
       ELSE SubSeq(pieces, 1, (CHOOSE k \in body : \A l \in body : k <= l) - 1)

SlotStored(pieces, parameter, temps) ==
    \E j \in 1..(Len(pieces) - 1), n \in 0..temps :
       LET type == Printed(parameter.datatype)
       IN /\ HasPrefix(pieces[j],
                       "    " \o Temp(n) \o " = alloca " \o type \o ",")
          /\ pieces[j + 1] = "    store " \o type \o " %" \o parameter.name
                                 \o ", " \o type \o "* " \o Temp(n) \o "\n"

C20_ParameterPrologue ==
    stage \in {"body", "done"} =>
       \A k \in 1..Len(func.arguments) :
          SlotStored(Prologue(ctx.result), func.arguments[k], ctx.next_temp)

(***************************************************************************)
(* C21: the emitted text of a function ends with its return: the last      *)
(* instruction before the closing `}` is a `ret`, and no basic block, the  *)
(* one opened by the `exit` label included, is left without a terminator.  *)
(***************************************************************************)
\* a function as from_parse_tree_node leaves it: `exit` on the terminal Nop
EndsWithExit(f) ==
    LET n == Len(f.instructions)
    IN /\ n > 0
       /\ f.instructions[n].opcode = "Nop"
       /\ (n - 1) \in DOMAIN f.labels
       /\ \E k \in 1..Len(f.labels[n - 1]) : f.labels[n - 1][k] = ExitLabel

\* the pieces that are instructions, block headers, terminators
IsInstruction(text) == HasPrefix(text, "    ")
IsHeader(text) == HasPrefix(text, "\n  ")
IsTerminator(text) == HasPrefix(text, "    ret ") \/ HasPrefix(text, "    br ")

\* the last instruction before position `k`, 0 when a block header (or the
\* start of the text) comes first
RECURSIVE LastOfBlock(_, _)
LastOfBlock(pieces, k) ==
    IF k = 0 \/ IsHeader(pieces[k]) THEN 0
    ELSE IF IsInstruction(pieces[k]) THEN k
    ELSE LastOfBlock(pieces, k - 1)

\* the positions where a block ends: before each header and before the `}`
BlockEnds(pieces) ==
    { k \in 1..Len(pieces) : IsHeader(pieces[k]) \/ pieces[k] = "}\n" }

C21_EndsWithReturn ==
    (stage = "done" /\ EndsWithExit(func)) =>
        /\ LET last == LastOfBlock(ctx.result, Len(ctx.result) - 1)
           IN last > 0 /\ HasPrefix(ctx.result[last], "    ret ")
        /\ \A k \in BlockEnds(ctx.result) :
              LET last == LastOfBlock(ctx.result, k - 1)
              IN last > 0 /\ IsTerminator(ctx.result[last])

(***************************************************************************)
(* C22: the pipeline is strict: each stage starts only after the stage     *)
(* before it has processed the whole translation unit; type correction of  *)
(* a function does not start before the IR of every function is built,    *)
(* and optimization not before every function is type-corrected.           *)
(***************************************************************************)
StageRank(stage_name) ==
    CASE stage_name = "tokenize" -> 1
      [] stage_name = "parse" -> 2
      [] stage_name = "build" -> 3
      [] stage_name = "correct" -> 4
      [] stage_name = "optimize" -> 5
      [] stage_name = "render" -> 6

C22_StrictPipeline ==
    \A i \in 1..Len(events), j \in 1..Len(events) :
       i < j => StageRank(events[i].stage) <= StageRank(events[j].stage)

(***************************************************************************)
(* C23: every diagnostic is fatal and the first one wins: when parsing,    *)
(* option decoding, the IR building of a function or code generation       *)
(* returns an error, compile returns that error, no later stage and no     *)
(* later function is processed, the output file is neither created nor     *)
(* written and the output is not printed.                                  *)
(***************************************************************************)
\* the first error of the run, "" when these stages all succeed
Diagnosed(e) ==
    CASE e.parse = "Err" -> "parse"
      [] e.parse = "None" -> "No Parse Tree Returned"
      [] e.level = "bad" -> "Bad optimization level"
      [] e.build_error > 0 -> "build"
      [] e.render = "Err" -> "render"
      [] OTHER -> ""

\* the last call compile makes when the run ends with that error
LastCall(e) ==
    CASE Diagnosed(e) = "build" -> Event("build", e.build_error)
      [] Diagnosed(e) = "render" -> Event("render", 0)
      [] OTHER -> Event("parse", 0)

\* a call that compile may have made before the run's first error
Before(e, call) ==
    CASE Diagnosed(e) = "render" -> TRUE
      [] Diagnosed(e) = "build" ->
            /\ call.stage # "render"
            /\ call.function <= e.build_error
            /\ call.function = e.build_error => call.stage = "build"
      [] OTHER -> call.stage \in {"tokenize", "parse"}

Mentions(texts, text) == \E k \in 1..Len(texts) : texts[k] = text

C23_FirstErrorFatal ==
    [][/\ pc # "return"
       /\ (pc' # "return") => error' = ""
       /\ (pc' = "return" /\ Diagnosed(env) # "") =>
             /\ error' = Diagnosed(env)
             /\ events'[Len(events')] = LastCall(env)
             /\ \A k \in 1..Len(events') : Before(env, events'[k])
             /\ ~created'
             /\ ~written'
             /\ ~Mentions(printed', "Output:")]_vars

C23_Witness ==
    /\ pc = "return"
    /\ env.children = 2
    /\ env.build_error = 2
    /\ env.render = "Err"
    /\ error = "build"
    /\ functions = <<1>>
    /\ events[Len(events)] = Event("build", 2)

(***************************************************************************)
(* C24: type mutation only fills in unknown types: force_mutate_type       *)
(* changes a Literal or a Symbol only when its raw type is Unknown, giving *)
(* it the new type with is_ref cleared; a value of known type and every    *)
(* Label is returned unchanged; attempt_mutate_type never changes a        *)
(* Symbol; applying a mutation twice with the same type yields the same    *)
(* value as applying it once.                                              *)
(***************************************************************************)
Calls(name) == applied' = Append(applied, name)

Filled(val, datatype) ==
    IF val.value \in {"Literal", "Symbol"} /\ val.datatype.raw_type = "Unknown"
    THEN [val EXCEPT !.datatype =
             [raw_type |-> datatype.raw_type, num_ptr |-> datatype.num_ptr,
              is_ref |-> FALSE]]
    ELSE val

C24_MutationFillsUnknown ==
    [][/\ Calls("force") => subject' = Filled(subject, new_type)
       /\ (Calls("attempt") /\ subject.value = "Symbol") => subject' = subject
       /\ (Calls("attempt") /\ subject.value = "Label") => subject' = subject
       /\ \A name \in {"force", "attempt"} :
             (Calls(name) /\ applied = <<name>>) => subject' = subject]_vars

C24_Witness ==
    /\ applied = <<"force", "force">>
    /\ original = Symbol("a", DataType("Unknown", 0, TRUE))
    /\ new_type = DataType("I32", 1, TRUE)
    /\ subject = Symbol("a", DataType("I32", 1, FALSE))

(***************************************************************************)
(* C25: single assignment of names in the emitted text of one function:    *)
(* next_temp never decreases and every value name defined in the function, *)
(* the parameters `%<name>` of the signature and every `%Vk` defined by an *)
(* instruction, is defined exactly once.                                   *)
(***************************************************************************)
\* the places that define `name`: parameters of the signature, instructions
DefinedByParameter(f, name) ==
    { k \in 1..Len(f.arguments) : "%" \o f.arguments[k].name = name }

DefinedByInstruction(pieces, name) ==
    { k \in 1..Len(pieces) : HasPrefix(pieces[k], "    " \o name \o " = ") }

DefinedNames(f, c) ==
    { "%" \o f.arguments[k].name : k \in 1..Len(f.arguments) }
    \cup { Temp(n) : n \in 0..c.next_temp }

C25_SingleAssignment ==
    stage \in {"symbols", "body", "done"} =>
        \A name \in DefinedNames(func, ctx) :
            Cardinality(DefinedByParameter(func, name))
              + Cardinality(DefinedByInstruction(ctx.result, name)) <= 1

(***************************************************************************)
(* C26: each symbol title has exactly one stack slot per function: at most *)
(* one `alloca` is emitted per title, the entry of the slot map for a      *)
(* title never changes once created, and a symbol is never read through    *)
(* the slot map (Deref and Ref destinations included) before its slot      *)
(* exists.                                                                 *)
(***************************************************************************)
Allocas(pieces, temps) == CommandsOf(pieces, {"alloca"}, temps)

C26_OneSlotPerSymbol ==
    [][/\ stage' # "panic"
       /\ \A title \in DOMAIN ctx.values :
             /\ title \in DOMAIN ctx'.values
             /\ ctx'.values[title] = ctx.values[title]
       /\ Cardinality(Allocas(ctx'.result, ctx'.next_temp))
             = Cardinality(DOMAIN ctx'.values)
       /\ \A t, u \in DOMAIN ctx'.values :
             t # u => ctx'.values[t].ptr # ctx'.values[u].ptr]_vars

(***************************************************************************)
(* C27: the `if` lowering and the branch emission agree on the direction   *)
(* of the test: for `Beq c, 0, Lfalse, Ltrue` the emitter outputs one      *)
(* `icmp eq` of c against 0 and one `br i1` whose first target, taken when *)
(* the test holds, is the third argument and whose second target is the    *)
(* fourth; a B* instruction emits no store.                                *)
(***************************************************************************)
ConditionalBranches(pieces) ==
    { k \in 1..Len(pieces) : HasPrefix(pieces[k], "    br i1 ") }

BranchShape(pieces, temps, all, inst) ==
    LET first == inst.arguments[1].datatype
        icmps == CommandsOf(pieces, {"icmp"}, all)
        branches == ConditionalBranches(pieces)
    IN /\ Cardinality(icmps) = 1
       /\ Cardinality(branches) = 1
       /\ AllStores(pieces) = {}
       /\ \E i \in icmps, b \in branches, t \in temps :
             /\ i < b
             /\ HasPrefix(pieces[i], "    " \o t \o " = icmp ")
             /\ pieces[b] = "    br i1 " \o t
                               \o ", label %" \o inst.arguments[3].name
                               \o ", label %" \o inst.arguments[4].name
                               \o "\n"
             /\ inst.opcode = "Beq" =>
                   \E x \in OperandTexts(pieces, temps, inst.arguments[1]),
                      y \in OperandTexts(pieces, temps, inst.arguments[2]) :
                      pieces[i] = "    " \o t \o " = icmp eq "
                                      \o Printed(first) \o " " \o x \o ", "
                                      \o y \o "\n"

C27_BranchDirection ==
    [][Rendering(BranchOpCodes) =>
          BranchShape(Emitted, Fresh(ctx, ctx'), ctx'.next_temp, Inst)]_vars

C27_Witness ==
    /\ stage = "done"
    /\ func.instructions[1].opcode = "Beq"
    /\ func.instructions[1].arguments[2] = Literal(0, Scalar("U8"))
    /\ Mentions(ctx.result, "    %V1 = icmp eq i8 %V2, 0\n")
    /\ Mentions(ctx.result, "    br i1 %V1, label %L1, label %L0\n")

(***************************************************************************)
(* C28: each of the eleven assignment-family tokens parses to an           *)
(* expression kind of its own: the node of `a <op> b` has a kind that no   *)
(* other binary token gives, and `a &= b`, `a ^= b`, `a |= b` are never    *)
(* BitwiseAnd, BitwiseXor or BitwiseOr nodes.                              *)
(***************************************************************************)
AssignmentTokens ==
    { <<"=">>, <<"+","=">>, <<"-","=">>, <<"*","=">>, <<"/","=">>,
      <<"%","=">>, <<"<","<","=">>, <<">",">","=">>, <<"&","=">>,
      <<"^","=">>, <<"|","=">> }

KindOf(left, op, right) ==
    LET parsed == parse_expression(<<left, op, right>>, 0)
    IN  IF parsed.kind = "ok" /\ parsed.node.kind = "Expression"
        THEN parsed.node.type ELSE "None"

C28_AssignmentKinds ==
    (/\ called = "parse_expression"
     /\ Len(tokens) = 3
     /\ tokens[2] \in AssignmentTokens) =>
        /\ result.kind = "ok"
        /\ result.node.kind = "Expression"
        /\ result.node.type \notin {"BitwiseAnd", "BitwiseXor", "BitwiseOr"}
        /\ \A op \in BinaryTokens \ {tokens[2]} :
              KindOf(tokens[1], op, tokens[3]) # result.node.type

(***************************************************************************)
(* C29: the parser terminates on every finite token sequence: a successful *)
(* sub-parser never returns a cursor before the one it was given, a        *)
(* successful parse_function, parse_statement, parse_argument and          *)
(* parse_assignment consumes at least one token, no loop runs more often   *)
(* than there are tokens, and parse returns a Library or a diagnostic.     *)
(***************************************************************************)
Consumes(r, index, n) == r.kind = "ok" => r.index >= index + n

LoopBounded(r, toks) ==
    r.kind = "ok" => Len(r.node.children) <= Len(toks)

\* the cursor at which parse_function hands over to parse_statement
function_header(toks, index) ==
    Try(expect_current_exists(toks, index, "function"), LAMBDA e :
    Try(parse_type(toks, index), LAMBDA return_type :
    Try(parse_identifier(toks, return_type.index), LAMBDA func_name :
    Try(expect_and_consume(toks, func_name.index, <<"(">>), LAMBDA open :
    Try(parse_argument_list(toks, open.index), LAMBDA arg_list :
        expect_and_consume(toks, arg_list.index, <<")">>))))))

\* every sub-parser that parse reaches from some cursor of the tokens
CursorAdvances(toks) ==
    \A i \in 0..Len(toks) :
        /\ Consumes(parse_function(toks, i), i, 1)
        /\ Consumes(parse_argument(toks, i), i, 1)
        /\ Consumes(parse_assignment(toks, i), i, 1)
        /\ Consumes(parse_type(toks, i), i, 0)
        /\ Consumes(parse_identifier(toks, i), i, 0)
        /\ Consumes(parse_arguments(toks, i), i, 0)
        /\ Consumes(parse_assignments(toks, i), i, 0)
        /\ Consumes(parse_library(toks, i), i, 0)
        /\ LoopBounded(parse_library(toks, i), toks)
        /\ LoopBounded(parse_arguments(toks, i), toks)
        /\ LoopBounded(parse_assignments(toks, i), toks)
        /\ LET header == function_header(toks, i)
           IN  header.kind = "ok" =>
                  /\ Consumes(parse_statement(toks, header.index),
                              header.index, 1)
                  /\ LoopBounded(parse_statement(toks, header.index), toks)

ReturnsLibraryOrDiagnostic ==
    \/ result.kind = "ok" /\ result.node.kind = "Library"
    \/ result.kind = "err"

C29_ParserTerminates ==
    called = "parse" =>
        /\ CursorAdvances(tokens)
        /\ ReturnsLibraryOrDiagnostic

(***************************************************************************)
(* C30: label and register names are never reused within a function:       *)
(* next_label and next_register never decrease; a label handed out by      *)
(* get_label or enter_loop and a register handed out by get_register is    *)
(* named after the old value of its counter and is no name handed out or   *)
(* used before; the two labels of one enter_loop differ from each other    *)
(* and from the labels of every other loop; and no label name is bound at  *)
(* two instruction indexes.                                                *)
(***************************************************************************)
MintedLabels(n) == { label_name(k) : k \in 0..(n - 1) }
MintedRegisters(n) == { register_name(k) : k \in 0..(n - 1) }

Range(seq) == { seq[k] : k \in 1..Len(seq) }

\* the name a value of an instruction carries
NameOf(val) ==
    CASE val.value = "Label" -> val.name
      [] val.value = "Symbol" -> val.title
      [] OTHER -> ""

\* the label and register names the function and the traversal hold
NamesInUse ==
    UNION { Range(labels[i]) : i \in DOMAIN labels }
    \cup Range(continue_stack) \cup Range(break_stack)
    \cup UNION { {todo[k].a, todo[k].b} : k \in 1..Len(todo) }
    \cup { NameOf(v) : v \in UNION { Range(instructions[i].arguments) :
                                        i \in DOMAIN instructions } }
    \cup { NameOf(v) : v \in UNION { Range(todo[k].inst.arguments) :
                                        k \in 1..Len(todo) } }

\* no label name is bound at two instruction indexes
BoundOnce(bound) ==
    \A i, j \in DOMAIN bound :
        (Range(bound[i]) \cap Range(bound[j]) # {}) => i = j

FreshNames ==
    /\ next_label' >= next_label
    /\ next_register' >= next_register
    /\ (ret' # ret /\ ret'.op = "get_label") =>
          /\ next_label' = next_label + 1
          /\ ret'.val = <<label_name(next_label)>>
          /\ ret'.val[1] \notin MintedLabels(next_label) \cup NamesInUse
    /\ (ret' # ret /\ ret'.op = "enter_loop") =>
          /\ next_label' = next_label + 2
          /\ ret'.val = <<label_name(next_label), label_name(next_label + 1)>>
          /\ ret'.val[1] # ret'.val[2]
          /\ Range(ret'.val) \cap (MintedLabels(next_label) \cup NamesInUse)
                = {}
    /\ (ret' # ret /\ ret'.op = "get_register") =>
          /\ next_register' = next_register + 1
          /\ ret'.val = <<register_name(next_register)>>
          /\ ret'.val[1] \notin MintedRegisters(next_register)
                                   \cup NamesInUse
    /\ next_label' # next_label => ret'.op \in {"get_label", "enter_loop"}
    /\ next_register' # next_register => ret'.op = "get_register"

C30_NamesNeverReused ==
    [][FreshNames /\ BoundOnce(labels) /\ BoundOnce(labels')]_vars

C30_Witness ==
    /\ built = "ok"
    /\ next_label = 5
    /\ next_register = 2
    /\ continue_stack = <<>>
    /\ Cardinality(UNION { Range(labels[i]) : i \in DOMAIN labels }) = 6


====
